---------------------------- MODULE Spec2Model ----------------------------
(***************************************************************************)
(* A model of oilrad's solve pipeline: constructing a two-stream model,    *)
(* solve_two_stream_model (continuous-wavelength path with the fast-solve  *)
(* approximation, six-band path with snow and SSL), the result records and *)
(* their accessors, and integrate_over_SW.                                 *)
(*                                                                         *)
(* Floating point numbers are fixed point integers: a dimensionless        *)
(* quantity x is the integer x * One.  Depths are in millimetres,          *)
(* wavelengths in nanometres.  Array indices are the 0-based (and negative *)
(* from-the-end) indices of the source; Idx reads an array at one.         *)
(*                                                                         *)
(* scipy's solve_bvp is not part of the repository.  It is a deterministic *)
(* function of its arguments whose value is not known here: the variable   *)
(* bvp records, per wavelength or band, the outcome it has shown so far,   *)
(* and a first call picks any outcome.  The two-stream equations and the   *)
(* boundary conditions are linear, so the solution for a surface           *)
(* downwelling T is T times the solution for a surface downwelling 1.      *)
(***************************************************************************)
EXTENDS Integers, Sequences, FiniteSets

\* ------------------------------------------------------------------ bounds

\* number of points of the vertical grid z
NGrid == 3
\* largest number of wavelengths of a continuous-wavelength model
MaxWavelengths == 3

\* ------------------------------------------------------------- fixed point

\* the fixed point representation of 1.0
One == 10 ^ 4

Abs(x) == IF x < 0 THEN 0 - x ELSE x

\* the element of a singleton set.  An expression that is used several times
\* is bound once as the element of a singleton set: Only({e(x) : x \in {a}}) is
\* e(a) with a evaluated once.
Only(S) == CHOOSE x \in S : TRUE

\* a * b of two fixed point numbers of size at most 1.0 or so, rounded down
Mul(a, b) == (a * b) \div One

\* a * b of two fixed point numbers, rounded down; the factors are split so
\* that no intermediate product leaves the integer range
WideMul(a, b) ==
    Only({(x \div One) * y + (x % One) * (y \div One) + ((x % One) * (y % One)) \div One :
            x \in {a}, y \in {b}})

\* a / b of fixed point numbers a and b > 0, rounded down: the quotient and
\* two further pairs of digits of the long division, so that no intermediate
\* product leaves the integer range; a quotient beyond 200 in size is given as
\* 200, which is beyond the range of the floats below
LongDiv(a, b) ==
    Only({IF q > 200 THEN 200 * One
         ELSE IF q < 0 - 200 THEN 0 - 200 * One
         ELSE q * One + (((x % y) * 100) \div y) * 100
                  + ((((x % y) * 100) % y) * 100) \div y :
            x \in {a}, y \in {b}, q \in {a \div b}})

\* a / b of two fixed point numbers, b # 0
Div(a, b) == IF b < 0 THEN LongDiv(0 - a, 0 - b) ELSE LongDiv(a, b)

\* np.exp(f) for a fixed point f in [0, ln 2): the Taylor polynomial of degree 6
ExpSmall(f) ==
    One + Mul(f, One + Mul(f \div 2, One + Mul(f \div 3, One + Mul(f \div 4,
        One + Mul(f \div 5, One + f \div 6)))))

\* np.exp(-x) for a fixed point x >= 0: -x = f - n ln 2 and exp(-x) = exp(f) / 2^n
ExpNeg(x) ==
    IF x >= 10 * One THEN 0
    ELSE LET n == (x + 6930) \div 6931
         IN  ExpSmall(n * 6931 - x) \div (2 ^ n)

\* np.exp(x) for a fixed point x >= 0: x = n ln 2 + f and exp(x) = 2^n exp(f)
ExpPos(x) == ExpSmall(x % 6931) * (2 ^ (x \div 6931))

\* np.exp(x) of the six-band code.  The fixed point range stands in for the
\* float range: above exp(x) = 4 the value saturates (only a negative depth
\* leads there).
Exp(x) ==
    IF x <= 0 THEN ExpNeg(0 - x)
    ELSE IF x >= (14 * One) \div 10 THEN 4 * One
    ELSE LET e == ExpPos(x) IN IF e > 4 * One THEN 4 * One ELSE e

\* np.exp(x) of the optics and the layer models, whose floats reach further:
\* above x = 5 the value saturates
ExpWide(x) ==
    IF x <= 0 THEN ExpNeg(0 - x)
    ELSE IF x >= 5 * One THEN ExpPos(5 * One)
    ELSE ExpPos(x)

RECURSIVE Ln(_)
\* np.log(x) for a fixed point x > 0: bring x into [1, 2) by factors of 2, then
\* the series of 2 atanh((x - 1) / (x + 1))
Ln(x) ==
    Only({IF v >= 2 * One THEN Ln(v \div 2) + 6931
         ELSE IF v < One THEN Ln(2 * v) - 6931
         ELSE LET y == Div(v - One, v + One)
                  y2 == Mul(y, y)
                  y3 == Mul(y2, y)
                  y5 == Mul(y3, y2)
              IN  2 * (y + y3 \div 3 + y5 \div 5 + Mul(y5, y2) \div 7) : v \in {x}})

RECURSIVE Bisect(_, _, _)
\* the largest s in lo..hi with s * s <= n
Bisect(n, lo, hi) ==
    Only({IF l >= h THEN l
         ELSE LET mid == (l + h + 1) \div 2
              IN  IF mid * mid <= k THEN Bisect(k, mid, h) ELSE Bisect(k, l, mid - 1) :
            k \in {n}, l \in {lo}, h \in {hi}})

\* np.sqrt(x) for a fixed point x >= 0
Sqrt(x) == IF x > 20 * One THEN 100 * Bisect(x, 0, 46340) ELSE Bisect(x * One, 0, 46340)

\* np.tanh(x) and np.sinh(x)
Tanh(x) ==
    LET e == ExpNeg(2 * Abs(x))
        t == Div(One - e, One + e)
    IN  IF x < 0 THEN 0 - t ELSE t
Sinh(x) == (ExpWide(x) - ExpWide(0 - x)) \div 2

\* A numpy float: a fixed point number, not-a-number, or an infinity (inf is
\* its sign).  The fixed point range stands in for the float range: a result
\* above 100 in size is an infinity.
Number(v) == [nan |-> FALSE, inf |-> 0, val |-> v]
NaN == [nan |-> TRUE, inf |-> 0, val |-> 0]
Inf(sign) == [nan |-> FALSE, inf |-> sign, val |-> 0]
Fin(v) ==
    Only({IF x > 100 * One THEN Inf(1) ELSE IF x < 0 - 100 * One THEN Inf(0 - 1)
         ELSE Number(x) : x \in {v}})
Sign(a) == IF a.inf # 0 THEN a.inf ELSE IF a.val < 0 THEN 0 - 1 ELSE 1
IsZero(a) == ~a.nan /\ a.inf = 0 /\ a.val = 0

FNeg(a) == Only({[nan |-> x.nan, inf |-> 0 - x.inf, val |-> 0 - x.val] : x \in {a}})
FAdd(a, b) ==
    Only({IF x.nan \/ y.nan \/ (x.inf # 0 /\ y.inf # 0 /\ x.inf # y.inf) THEN NaN
         ELSE IF x.inf # 0 THEN x
         ELSE IF y.inf # 0 THEN y
         ELSE Fin(x.val + y.val) : x \in {a}, y \in {b}})
FSub(a, b) == FAdd(a, FNeg(b))
FMul(a, b) ==
    Only({IF x.nan \/ y.nan THEN NaN
         ELSE IF x.inf # 0 \/ y.inf # 0
              THEN IF IsZero(x) \/ IsZero(y) THEN NaN ELSE Inf(Sign(x) * Sign(y))
         ELSE Fin(WideMul(x.val, y.val)) : x \in {a}, y \in {b}})
\* numpy division: a division by zero is an infinity (or not-a-number), with
\* a warning and no exception
FDiv(a, b) ==
    Only({IF x.nan \/ y.nan \/ (x.inf # 0 /\ y.inf # 0) \/ (IsZero(x) /\ IsZero(y))
         THEN NaN
         ELSE IF x.inf # 0 \/ IsZero(y) THEN Inf(Sign(x) * Sign(y))
         ELSE IF y.inf # 0 THEN Number(0)
         ELSE Fin(Div(x.val, y.val)) : x \in {a}, y \in {b}})
FExp(a) ==
    Only({IF x.nan THEN NaN
         ELSE IF x.inf # 0 THEN (IF x.inf > 0 THEN x ELSE Number(0))
         ELSE IF x.val >= 5 * One THEN Inf(1)
         ELSE Fin(ExpWide(x.val)) : x \in {a}})
FTanh(a) ==
    Only({IF x.nan THEN NaN
         ELSE IF x.inf # 0 THEN Number(x.inf * One)
         ELSE Number(Tanh(x.val)) : x \in {a}})
FSinh(a) == Only({FDiv(FSub(FExp(x), FExp(FNeg(x))), Number(2 * One)) : x \in {a}})
FSqrt(a) ==
    Only({IF x.nan \/ Sign(x) < 0 THEN NaN
         ELSE IF x.inf # 0 THEN x
         ELSE Number(Sqrt(x.val)) : x \in {a}})

\* numpy indexing of a one dimensional array: a[k], with a[-1] the last element
Idx(a, k) == IF k < 0 THEN a[Len(a) + k + 1] ELSE a[k + 1]

RECURSIVE SumSeq(_)
SumSeq(s) == IF s = <<>> THEN 0 ELSE Head(s) + SumSeq(Tail(s))


\* ------------------------------------------------------ oilrad/constants.py

WAVELENGTH_BAND_INDICES == <<0, 1, 2, 3, 4, 5>>

\* fractions of the incident radiation per band, in thousandths
CLOUDY_SKY_FRACTIONS == <<86, 217, 196, 155, 301, 45>>

\* extinction coefficients in units of 0.01 / m
SSL_EXTINCTION_COEFFICIENTS == <<302, 309, 421, 770, 8556, 100000>>
SNOW_EXTINCTION_COEFFICIENTS == <<1602, 1555, 1870, 3015, 12518, 100000>>

\* optically thick albedos, fixed point
SNOW_SPECTRAL_ALBEDOS == <<9200, 9600, 9800, 9800, 8900, 0>>
SSL_SPECTRAL_ALBEDOS == <<7900, 8000, 7900, 7500, 5000, 0>>

\* the snow albedo decay length, 0.02 m, in millimetres
decay_length == 20

\* extinction coefficient (0.01 / m) times depth (mm), as a fixed point number
OpticalDepth(coefficient, depth) == (coefficient * depth) \div 10

\* A function that can raise returns a record: ok, its value, or the error.
Ok(v) == [ok |-> TRUE, val |-> v, err |-> "none"]
Raise(e) == [ok |-> FALSE, val |-> 0, err |-> e]

\* a plausible bug: the optically thick albedo whatever the depth of the snow
calculate_band_snow_albedo_thick(snow_depth, b) == Idx(SNOW_SPECTRAL_ALBEDOS, b)

calculate_band_snow_albedo(snow_depth, b) ==
    Mul(Idx(SNOW_SPECTRAL_ALBEDOS, b),
        One - Exp(0 - (snow_depth * One) \div decay_length))

calculate_band_snow_transmittance(snow_depth, b) ==
    Mul(One - calculate_band_snow_albedo(snow_depth, b),
        Exp(0 - OpticalDepth(Idx(SNOW_EXTINCTION_COEFFICIENTS, b), snow_depth)))

\* a plausible bug: the comparison includes 0
calculate_band_SSL_albedo_inclusive(SSL_depth, b) ==
    IF SSL_depth >= 0 THEN Ok(Idx(SSL_SPECTRAL_ALBEDOS, b))
    ELSE Raise("ValueError")

\* a plausible bug: no validation, every depth that is not positive has albedo 0
calculate_band_SSL_albedo_unchecked(SSL_depth, b) ==
    IF SSL_depth > 0 THEN Ok(Idx(SSL_SPECTRAL_ALBEDOS, b))
    ELSE Ok(0)

calculate_band_SSL_albedo(SSL_depth, b) ==
    IF SSL_depth > 0 THEN Ok(Idx(SSL_SPECTRAL_ALBEDOS, b))
    ELSE IF SSL_depth = 0 THEN Ok(0)
    ELSE Raise("ValueError")

calculate_band_SSL_transmittance(SSL_depth, b) ==
    LET a == calculate_band_SSL_albedo(SSL_depth, b) IN
    IF ~a.ok THEN a
    ELSE Ok(Mul(One - a.val,
                Exp(0 - OpticalDepth(Idx(SSL_EXTINCTION_COEFFICIENTS, b), SSL_depth))))


\* ------------------------------------------------------------- the solver

\* scipy's diagnostic messages of a failed solve
Messages ==
    {"The maximum number of mesh nodes is exceeded.",
     "A singular Jacobian encountered when solving the collocation system."}

\* What a solve can show of the ice: its albedo and its transmittance for a
\* unit surface downwelling.
Profiles ==
    <<[albedo |-> 5000, trans |-> 2000], [albedo |-> 3000, trans |-> 0]>>

Unknown == [known |-> FALSE, success |-> FALSE, message |-> "", profile |-> 0]

Outcomes ==
    {[known |-> TRUE, success |-> TRUE, message |-> "converged", profile |-> p] :
        p \in 1..Len(Profiles)}
    \cup {[known |-> TRUE, success |-> FALSE, message |-> m, profile |-> 0] :
        m \in Messages}

\* A column of profile p on n grid points with its surface at the last point
\* (surfaceLast) or at the first, for a surface downwelling T.
Column(p, n, T, surfaceLast) ==
    LET h(k) == IF surfaceLast THEN k - 1 ELSE n - k
        a == Profiles[p].albedo
        t == Profiles[p].trans
    IN  [up   |-> [k \in 1..n |-> Mul(T, (a * h(k)) \div (n - 1))],
         down |-> [k \in 1..n |-> Mul(T, t + ((One - t) * h(k)) \div (n - 1))]]

\* The functions on the mesh that the solver chooses between, for outcome o.
Candidates(o, n, T) ==
    IF o.success THEN {Column(o.profile, n, T, s) : s \in BOOLEAN} ELSE {}

\* y(x[0]) and y(x[-1]) of a candidate: F is <<upwelling, downwelling>>
F_first(c) == <<c.up[1], c.down[1]>>
F_last(c) == <<c.up[Len(c.up)], c.down[Len(c.down)]>>

\* solve_bvp(fun, bc, x, y): the solution on the mesh from z[0] to z[-1] whose
\* boundary residual bc(y(x[0]), y(x[-1])) vanishes; bc is given by its value on
\* every candidate.
solve_bvp(bc, n, o) ==
    LET fits == {c \in DOMAIN bc : bc[c] = <<0, 0>>}
    IN  IF ~o.success \/ fits = {}
        THEN [success |-> FALSE, message |-> o.message, sol |-> Column(1, n, 0, TRUE)]
        ELSE [success |-> TRUE, message |-> o.message, sol |-> CHOOSE c \in fits : TRUE]

\* -------------------------------------------------------------- the models

\* a plausible bug: the number of liquid grid points is taken for the index of
\* the first point with ice
ice_base_index_of_liquid_count(liquid_fraction) ==
    Cardinality({k \in 1..Len(liquid_fraction) : ~(liquid_fraction[k] < One)})

\* np.argmax(liquid_fraction < 1): the first index that holds True, 0 if none
ice_base_index_of(liquid_fraction) ==
    IF \E k \in 1..Len(liquid_fraction) : liquid_fraction[k] < One
    THEN (CHOOSE k \in 1..Len(liquid_fraction) :
             /\ liquid_fraction[k] < One
             /\ \A j \in 1..(k - 1) : ~(liquid_fraction[j] < One)) - 1
    ELSE 0

\* liquid_fraction = None
None == <<>>

SixBandModel(z, SSL_depth, snow_depth, liquid_fraction) ==
    LET lf == IF liquid_fraction = None THEN [k \in 1..Len(z) |-> 0]
              ELSE liquid_fraction
    IN  [kind |-> "SixBandModel", z |-> z, wavelengths |-> <<>>,
         SSL_depth |-> SSL_depth, snow_depth |-> snow_depth,
         liquid_fraction |-> lf, ice_base_index |-> ice_base_index_of(lf),
         fast_solve |-> FALSE, wavelength_cutoff |-> 0]

CtsWavelengthModel(z, wavelengths, liquid_fraction, fast_solve, wavelength_cutoff) ==
    [kind |-> "CtsWavelengthModel", z |-> z, wavelengths |-> wavelengths,
     SSL_depth |-> 0, snow_depth |-> 0,
     liquid_fraction |-> liquid_fraction,
     ice_base_index |-> ice_base_index_of(liquid_fraction),
     fast_solve |-> fast_solve, wavelength_cutoff |-> wavelength_cutoff]

\* ------------------------------------------------------ oilrad/six_band.py

\* the calls a solve makes, in order
ODE == "_get_ODE_fun"
BC == "_get_BC_fun"
BVP == "solve_bvp"

\* _get_BC_fun: the surface transmittance its closure holds, or the error
get_BC_fun(model, b) ==
    LET ssl == calculate_band_SSL_transmittance(model.SSL_depth, b) IN
    IF ~ssl.ok THEN ssl
    ELSE Ok(Mul(calculate_band_snow_transmittance(model.snow_depth, b), ssl.val))

\* a plausible bug: the two ends of the grid are taken for each other
BCs_six_swapped(surface_transmittance, F_bottom, F_top) ==
    <<F_bottom[2] - surface_transmittance, F_top[1]>>

\* _BCs(F_bottom, F_top) of six_band.py
BCs_six(surface_transmittance, F_bottom, F_top) ==
    <<F_top[2] - surface_transmittance, F_bottom[1]>>

Zeros(n) == [k \in 1..n |-> 0]

\* a[k] = v for a numpy index k
SetIdx(a, k, v) ==
    [a EXCEPT ![IF k < 0 THEN Len(a) + k + 1 ELSE k + 1] = v]

Solved(up, down, calls) ==
    [ok |-> TRUE, err |-> "none", message |-> "", up |-> up, down |-> down,
     calls |-> calls]
Failed(err, message, calls) ==
    [ok |-> FALSE, err |-> err, message |-> message, up |-> <<>>, down |-> <<>>,
     calls |-> calls]

\* a plausible bug: solution.success is not looked at
solve_band_bvp_unchecked(model, b, o) ==
    LET T == get_BC_fun(model, b) IN
    IF ~T.ok THEN Failed(T.err, "SSL depth must be non-negative", <<ODE, BC>>)
    ELSE LET BCs(F_bottom, F_top) == BCs_six(T.val, F_bottom, F_top)
             n == Len(model.z)
             bc == [c \in Candidates(o, n, T.val) |-> BCs(F_first(c), F_last(c))]
             solution == solve_bvp(bc, n, o)
         IN  Solved(solution.sol.up, solution.sol.down, <<ODE, BC, BVP>>)

\* six_band.py 139-150: the boundary value solve of a band; o is what solve_bvp
\* shows for this band, should it be called
solve_band_bvp(model, b, o) ==
    LET T == get_BC_fun(model, b) IN
    IF ~T.ok THEN Failed(T.err, "SSL depth must be non-negative", <<ODE, BC>>)
    ELSE LET BCs(F_bottom, F_top) == BCs_six(T.val, F_bottom, F_top)
             n == Len(model.z)
             bc == [c \in Candidates(o, n, T.val) |-> BCs(F_first(c), F_last(c))]
             solution == solve_bvp(bc, n, o)
         IN  IF ~solution.success
             THEN Failed("RuntimeError", solution.message, <<ODE, BC, BVP>>)
             ELSE Solved(solution.sol.up, solution.sol.down, <<ODE, BC, BVP>>)

\* a plausible bug: the highest band is solved like the others
solve_a_wavelength_band_no_bypass(model, b, o) == solve_band_bvp(model, b, o)

solve_a_wavelength_band(model, b, o) ==
    IF b = 5
    THEN Solved(Zeros(Len(model.z)),
                SetIdx(Zeros(Len(model.z)), -1,
                       calculate_band_snow_transmittance(model.snow_depth, 5)),
                <<>>)
    ELSE solve_band_bvp(model, b, o)

\* ------------------------------------------------- oilrad/infinite_layer.py

\* _BCs(F_bottom, F_top) of infinite_layer.py
BCs_cts(F_bottom, F_top) == <<F_top[2] - One, F_bottom[1]>>

solve_at_given_wavelength(model, wavelength, o) ==
    LET n == Len(model.z)
        bc == [c \in Candidates(o, n, One) |-> BCs_cts(F_first(c), F_last(c))]
        solution == solve_bvp(bc, n, o)
    IN
    IF ~solution.success
    THEN Failed("RuntimeError", solution.message, <<ODE, BVP>>)
    ELSE Solved(solution.sol.up, solution.sol.down, <<ODE, BVP>>)

\* ----------------------------------------------------- oilrad/irradiance.py

\* A two dimensional array is the sequence of its columns: a[:, i] is a[i + 1],
\* a column a sequence over the grid.  An unwritten column of np.empty is <<>>.
Empty(columns) == [c \in 1..columns |-> <<>>]

NoResult ==
    [kind |-> "none", z |-> <<>>, wavelengths |-> <<>>, upwelling |-> <<>>,
     downwelling |-> <<>>, snow_depth |-> 0, SSL_depth |-> 0, ice_base_index |-> 0]

SpectralIrradiance(z, wavelengths, upwelling, downwelling, ice_base_index) ==
    [kind |-> "SpectralIrradiance", z |-> z, wavelengths |-> wavelengths,
     upwelling |-> upwelling, downwelling |-> downwelling,
     snow_depth |-> 0, SSL_depth |-> 0, ice_base_index |-> ice_base_index]

SixBandSpectralIrradiance(z, upwelling, downwelling, snow_depth, SSL_depth, ice_base_index) ==
    [kind |-> "SixBandSpectralIrradiance", z |-> z, wavelengths |-> <<>>,
     upwelling |-> upwelling, downwelling |-> downwelling,
     snow_depth |-> snow_depth, SSL_depth |-> SSL_depth,
     ice_base_index |-> ice_base_index]

\* a[k, :] of a two dimensional array
Row(a, k) == [c \in 1..Len(a) |-> Idx(a[c], k)]

\* SpectralIrradiance.albedo and .transmittance
spectral_albedo(r) == Row(r.upwelling, -1)
spectral_transmittance(r) == Row(r.downwelling, r.ice_base_index)

\* SixBandSpectralIrradiance.albedo
six_band_albedo(r) ==
    LET ice_albedo == Row(r.upwelling, -1)
        snow_albedo == [c \in 1..6 |-> calculate_band_snow_albedo(r.snow_depth, c - 1)]
        SSL_albedo == [c \in 1..6 |-> calculate_band_SSL_albedo(r.SSL_depth, c - 1)]
        snow_transmittance ==
            [c \in 1..6 |-> calculate_band_snow_transmittance(r.snow_depth, c - 1)]
        SSL_transmittance ==
            [c \in 1..6 |-> calculate_band_SSL_transmittance(r.SSL_depth, c - 1)]
    IN  IF \E c \in 1..6 : ~SSL_albedo[c].ok THEN Raise("ValueError")
        ELSE Ok([c \in 1..6 |->
                    snow_albedo[c]
                    + Mul(snow_transmittance[c], SSL_albedo[c].val)
                    + Mul(Mul(snow_transmittance[c], SSL_transmittance[c].val),
                          ice_albedo[c])])

\* SixBandSpectralIrradiance.net_irradiance
net_irradiance(r) ==
    [c \in 1..Len(r.upwelling) |->
        [d \in 1..Len(r.z) |-> r.downwelling[c][d] - r.upwelling[c][d]]]

\* a plausible bug: the slice starts one band too low, [:, 0:3]
PAR_transmittance_from_band_0(r) ==
    [d \in 1..Len(r.z) |->
        (SumSeq([c \in 1..3 |-> net_irradiance(r)[c][d] * CLOUDY_SKY_FRACTIONS[c]]))
            \div SumSeq(SubSeq(CLOUDY_SKY_FRACTIONS, 1, 3))]

\* SixBandSpectralIrradiance.PAR_transmittance: the slices [:, 1:4] and [1:4]
PAR_transmittance(r) ==
    [d \in 1..Len(r.z) |->
        (SumSeq([c \in 1..3 |->
                    net_irradiance(r)[c + 1][d] * CLOUDY_SKY_FRACTIONS[c + 1]]))
            \div SumSeq(SubSeq(CLOUDY_SKY_FRACTIONS, 2, 4))]

\* SixBandSpectralIrradiance.ice_base_PAR_transmittance
ice_base_PAR_transmittance(r) == Idx(PAR_transmittance(r), r.ice_base_index)

NoBroadband ==
    [kind |-> "none", z |-> <<>>, upwelling |-> <<>>, downwelling |-> <<>>,
     albedo |-> 0, ice_base_index |-> 0]

\* Irradiance; its albedo is a property, see broadband_albedo
Irradiance(z, upwelling, downwelling, ice_base_index) ==
    [kind |-> "Irradiance", z |-> z, upwelling |-> upwelling,
     downwelling |-> downwelling, albedo |-> 0, ice_base_index |-> ice_base_index]

SixBandIrradiance(z, upwelling, downwelling, albedo, ice_base_index) ==
    [kind |-> "SixBandIrradiance", z |-> z, upwelling |-> upwelling,
     downwelling |-> downwelling, albedo |-> albedo,
     ice_base_index |-> ice_base_index]

broadband_albedo(r) ==
    IF r.kind = "Irradiance" THEN Idx(r.upwelling, -1) ELSE r.albedo
broadband_transmittance(r) == Idx(r.downwelling, r.ice_base_index)

\* -------------------------------------------------------- oilrad/spectra.py

BlackBodySpectrum(min_wavelength, max_wavelength) ==
    [min_wavelength |-> min_wavelength, max_wavelength |-> max_wavelength]

\* spectrum = None
NoSpectrum == BlackBodySpectrum(0, 0)

\* _top_of_atmosphere_irradiance at the wavelengths of the model, W/m2/nm,
\* fixed point
top_of_atmosphere_irradiance(wavelength) ==
    CASE wavelength = 1000 -> 7314
      [] wavelength = 1100 -> 5828
      [] wavelength = 1200 -> 4667
      [] wavelength = 1300 -> 3762

\* _total_irradiance: the integral of the above from min to max, W/m2
total_irradiance(spectrum) ==
    IF spectrum = BlackBodySpectrum(350, 3000) THEN 1242 ELSE 52

\* a plausible bug: the comparisons include the bounds, which are rejected
spectrum_call_open_range(spectrum, wavelengths) ==
    IF \/ \E k \in 1..Len(wavelengths) : wavelengths[k] >= spectrum.max_wavelength
       \/ \E k \in 1..Len(wavelengths) : wavelengths[k] <= spectrum.min_wavelength
    THEN Raise("ValueError")
    ELSE Ok([k \in 1..Len(wavelengths) |->
                (top_of_atmosphere_irradiance(wavelengths[k]) * 100)
                    \div total_irradiance(spectrum)])

\* BlackBodySpectrum.__call__ on an array: weights per nm, in millionths
spectrum_call(spectrum, wavelengths) ==
    IF \/ \E k \in 1..Len(wavelengths) : wavelengths[k] > spectrum.max_wavelength
       \/ \E k \in 1..Len(wavelengths) : wavelengths[k] < spectrum.min_wavelength
    THEN Raise("ValueError")
    ELSE Ok([k \in 1..Len(wavelengths) |->
                (top_of_atmosphere_irradiance(wavelengths[k]) * 100)
                    \div total_irradiance(spectrum)])

\* scipy's trapezoid(y, x) along the wavelength axis
trapezoid(y, x) ==
    SumSeq([k \in 1..(Len(x) - 1) |->
               ((x[k + 1] - x[k]) * (y[k] + y[k + 1])) \div 2])

integrate_cts(irradiance, weights, wavelengths, n) ==
    [d \in 1..n |->
        trapezoid([k \in 1..Len(wavelengths) |->
                      (irradiance[k][d] * weights[k]) \div 1000],
                  wavelengths) \div 1000]

\* a plausible bug: the sum runs over the depth axis
integrate_six_over_depth(x, n) ==
    [c \in 1..6 |->
        SumSeq([d \in 1..n |-> x[c][d] * CLOUDY_SKY_FRACTIONS[c]]) \div 1000]

\* a plausible bug: the bands are summed without their fractions
integrate_six_unweighted(x, n) ==
    [d \in 1..n |-> SumSeq([c \in 1..6 |-> x[c][d]])]

\* np.sum(x * CLOUDY_SKY_FRACTIONS, axis=1)
integrate_six(x, n) ==
    [d \in 1..n |->
        SumSeq([c \in 1..6 |-> x[c][d] * CLOUDY_SKY_FRACTIONS[c]]) \div 1000]

\* integrate_over_SW returns or raises, having made these calls
Returns(v, made) == [ok |-> TRUE, val |-> v, err |-> "none", calls |-> made]
Raises(e, made) == [ok |-> FALSE, val |-> NoBroadband, err |-> e, calls |-> made]

\* irradiance.py 265-276
integrate_spectral(spectral_irradiance, spectrum) ==
    LET wavelengths == spectral_irradiance.wavelengths
        weights == spectrum_call(spectrum, wavelengths)
        n == Len(spectral_irradiance.z)
    IN  IF ~weights.ok THEN Raises("ValueError", <<"spectrum">>)
        ELSE Returns(Irradiance(
                 spectral_irradiance.z,
                 integrate_cts(spectral_irradiance.upwelling, weights.val,
                               wavelengths, n),
                 integrate_cts(spectral_irradiance.downwelling, weights.val,
                               wavelengths, n),
                 spectral_irradiance.ice_base_index),
               <<"spectrum", "trapezoid", "spectrum", "trapezoid">>)

\* irradiance.py 277-285
integrate_bands(spectral_irradiance) ==
    LET n == Len(spectral_irradiance.z)
        albedo == six_band_albedo(spectral_irradiance)
    IN  IF ~albedo.ok THEN Raises(albedo.err, <<"sum", "sum", "albedo">>)
        ELSE Returns(SixBandIrradiance(
                 spectral_irradiance.z,
                 integrate_six(spectral_irradiance.upwelling, n),
                 integrate_six(spectral_irradiance.downwelling, n),
                 SumSeq([c \in 1..6 |-> CLOUDY_SKY_FRACTIONS[c] * albedo.val[c]])
                     \div 1000,
                 spectral_irradiance.ice_base_index),
               <<"sum", "sum", "albedo">>)

\* a plausible bug: spectrum is not compared with None, and calling None raises
\* a TypeError inside the first integration
integrate_over_SW_unguarded(spectral_irradiance, spectrum) ==
    IF spectral_irradiance.kind = "SpectralIrradiance"
    THEN IF spectrum = NoSpectrum THEN Raises("TypeError", <<"spectrum">>)
         ELSE integrate_spectral(spectral_irradiance, spectrum)
    ELSE IF spectral_irradiance.kind = "SixBandSpectralIrradiance"
    THEN integrate_bands(spectral_irradiance)
    ELSE Raises("NotImplementedError", <<>>)

integrate_over_SW(spectral_irradiance, spectrum) ==
    IF spectral_irradiance.kind = "SpectralIrradiance"
    THEN IF spectrum = NoSpectrum THEN Raises("ValueError", <<>>)
         ELSE integrate_spectral(spectral_irradiance, spectrum)
    ELSE IF spectral_irradiance.kind = "SixBandSpectralIrradiance"
    THEN integrate_bands(spectral_irradiance)
    ELSE Raises("NotImplementedError", <<>>)

\* ---------------------------------------------------------- oilrad/solve.py

\* a plausible bug: of several smallest elements the last is taken
argmin_last(a) ==
    (CHOOSE k \in 1..Len(a) :
        /\ \A j \in 1..Len(a) : a[k] <= a[j]
        /\ \A j \in (k + 1)..Len(a) : a[j] > a[k]) - 1

\* np.argmin: the first index of the smallest element
argmin(a) ==
    (CHOOSE k \in 1..Len(a) :
        /\ \A j \in 1..Len(a) : a[k] <= a[j]
        /\ \A j \in 1..(k - 1) : a[j] > a[k]) - 1

\* a plausible bug: the + 1 is forgotten and the nearest wavelength is not solved
cut_off_index_nearest_excluded(model) ==
    argmin([k \in 1..Len(model.wavelengths) |->
               Abs(model.wavelengths[k] - model.wavelength_cutoff)])

cut_off_index(model) ==
    argmin([k \in 1..Len(model.wavelengths) |->
               Abs(model.wavelengths[k] - model.wavelength_cutoff)]) + 1

\* a plausible bug: the loop runs over every wavelength in fast-solve mode too,
\* and the fast path then overwrites columns the loop has filled
interior_every_wavelength(model) == model.wavelengths

\* model.wavelengths[is_interior], the wavelengths the loop enumerates
interior(model) ==
    IF model.fast_solve
    THEN SubSeq(model.wavelengths, 1, cut_off_index(model))
    ELSE model.wavelengths

\* upwelling[:, is_surface] = 0 and downwelling[:, is_surface] = 0,
\* downwelling[-1, is_surface] = 1
fast_path_upwelling(model, upwelling) ==
    [c \in 1..Len(upwelling) |->
        IF c - 1 >= cut_off_index(model) THEN Zeros(Len(model.z)) ELSE upwelling[c]]
\* a plausible bug: the 1 is written at the first grid point, not the last
fast_path_downwelling_at_base(model, downwelling) ==
    [c \in 1..Len(downwelling) |->
        IF c - 1 >= cut_off_index(model)
        THEN SetIdx(Zeros(Len(model.z)), 0, One) ELSE downwelling[c]]

fast_path_downwelling(model, downwelling) ==
    [c \in 1..Len(downwelling) |->
        IF c - 1 >= cut_off_index(model)
        THEN SetIdx(Zeros(Len(model.z)), -1, One) ELSE downwelling[c]]

\* -------------------------------------------------------- oilrad/optics.py

\* Rows of the Warren 2008 table: wavelength in microns and imaginary
\* refractive index, the index in units of 1e-9.
WARREN_WAVELENGTHS == <<6000, 6500, 7000, 7500>>
WARREN_IMAGINARY_REFRACTIVE_INDEX == <<57300, 143000, 290000, 587000>>

\* in kg/m3
ICE_DENSITY_ROCHE_2022 == 800
ICE_ASYMMETRY_PARAM_ROCHE_2022 == 9800
\* mass cross section in m2/kg
SCATTERING_MASS_CROSS_SECTION_ROCHE_2022 ==
    [FYI |-> 1500, MYI |-> 7500, MELT |-> 300]

\* The Romashkino mass absorption table: droplet radii in microns, wavelengths
\* in nm, and the coefficient by wavelength (row) and radius (column).
ROMASHKINO_DROPLET_RADII == <<500, 2500, 5000, 15000, 25000, 35000, 50000>>
MAC_wavelengths == <<600, 650, 700>>
OIL_MAC_DATA ==
    <<<<5000, 4500, 4000, 3000, 2500, 2000, 1500>>,
      <<4000, 3600, 3200, 2400, 2000, 1600, 1200>>,
      <<3000, 2700, 2400, 1800, 1500, 1200, 900>>>>

\* the value at x of the line through (xp[j], fp[j]) and (xp[j + 1], fp[j + 1])
Line(x, xp, fp, j) ==
    fp[j] + ((fp[j + 1] - fp[j]) * (x - xp[j])) \div (xp[j + 1] - xp[j])

\* np.interp(x, xp, fp): linear between the points of xp, and fp[0] below the
\* first and fp[-1] above the last
interp(x, xp, fp) ==
    IF x <= xp[1] THEN fp[1]
    ELSE IF x >= xp[Len(xp)] THEN fp[Len(xp)]
    ELSE Line(x, xp, fp, CHOOSE j \in 1..(Len(xp) - 1) : xp[j] <= x /\ x < xp[j + 1])

\* wavelength in microns
calculate_ice_imaginary_refractive_index(wavelength) ==
    ExpWide(interp(Ln(wavelength),
                   [j \in 1..Len(WARREN_WAVELENGTHS) |-> Ln(WARREN_WAVELENGTHS[j])],
                   [j \in 1..Len(WARREN_WAVELENGTHS) |->
                       Ln(WARREN_IMAGINARY_REFRACTIVE_INDEX[j])]))

\* 4 pi index / wavelength: the 1e-9 of the index and of the nm cancel
calculate_ice_absorption_coefficient(wavelength_in_nm) ==
    WideMul(125664, calculate_ice_imaginary_refractive_index(wavelength_in_nm * 10))
        \div wavelength_in_nm

calculate_ice_scattering_coefficient_from_Roche_2022(ice_type) ==
    Mul(((One - ICE_ASYMMETRY_PARAM_ROCHE_2022) * ICE_DENSITY_ROCHE_2022) \div 2,
        SCATTERING_MASS_CROSS_SECTION_ROCHE_2022[ice_type])

\* interp(wavelength_nm, droplet_radius_microns) of the LinearNDInterpolator:
\* not-a-number outside the rectangle of the table; on a tabulated radius it is
\* linear between the tabulated wavelengths
Romashkino_MAC(wavelength_nm, droplet_radius_microns) ==
    LET n == Len(MAC_wavelengths)
        columns == {c \in 1..Len(ROMASHKINO_DROPLET_RADII) :
                        ROMASHKINO_DROPLET_RADII[c] = droplet_radius_microns}
    IN  IF \/ wavelength_nm < MAC_wavelengths[1]
           \/ wavelength_nm > MAC_wavelengths[n]
           \/ columns = {}
        THEN NaN
        ELSE LET c == CHOOSE c \in columns : TRUE
             IN  Number(interp(wavelength_nm, MAC_wavelengths,
                               [j \in 1..n |-> OIL_MAC_DATA[j][c]]))

\* oil_mass_ratio in ng oil / g ice
calculate_ice_oil_absorption_coefficient(wavelengths_in_nm, oil_mass_ratio, droplet_radius_in_microns) ==
    LET MAC == Romashkino_MAC(wavelengths_in_nm, droplet_radius_in_microns)
    IN  IF MAC.nan THEN NaN
        ELSE Number(calculate_ice_absorption_coefficient(wavelengths_in_nm)
                    + (((oil_mass_ratio * ICE_DENSITY_ROCHE_2022) \div 1000)
                        * MAC.val) \div 1000)

calculate_ice_oil_extinction_coefficient(wavelength_in_nm, oil_mass_ratio, ice_type, droplet_radius_in_microns) ==
    Only({FSqrt(FAdd(FMul(k, k), FMul(Number(2 * One), FMul(k, r)))) :
            k \in {calculate_ice_oil_absorption_coefficient(
                       wavelength_in_nm, oil_mass_ratio, droplet_radius_in_microns)},
            r \in {Number(calculate_ice_scattering_coefficient_from_Roche_2022(ice_type))}})

\* -------------------------------------------------- oilrad/single_layer.py

\* a depth or thickness in millimetres as a float in metres
Metres(z) == Number(z * 10)

\* The layer models call the coefficient functions without a droplet radius;
\* the table is read at this median radius (microns).
median_droplet_radius == 5000

SingleLayerModel(oil_mass_ratio, ice_thickness, ice_type) ==
    [kind |-> "SingleLayerModel", oil_mass_ratio |-> oil_mass_ratio,
     thickness_ratio |-> One, ice_thickness |-> ice_thickness,
     ice_type |-> ice_type]

SingleLayer_r(m) ==
    Number(calculate_ice_scattering_coefficient_from_Roche_2022(m.ice_type))
SingleLayer_k(m, L) ==
    calculate_ice_oil_absorption_coefficient(L, m.oil_mass_ratio, median_droplet_radius)
SingleLayer_mu(m, L) ==
    calculate_ice_oil_extinction_coefficient(
        L, m.oil_mass_ratio, m.ice_type, median_droplet_radius)
SingleLayer_s(m, L) ==
    Only({FDiv(FSub(mu, k), FAdd(mu, k)) :
            mu \in {SingleLayer_mu(m, L)}, k \in {SingleLayer_k(m, L)}})
SingleLayer_opt_depth(m, L) == FMul(SingleLayer_mu(m, L), Metres(m.ice_thickness))

SingleLayer_A(m, L) ==
    Only({FMul(SingleLayer_s(m, L),
               FDiv(Number(One),
                    FSub(Number(One),
                         FMul(FExp(FMul(Number(0 - 2 * One), FMul(mu, Metres(m.ice_thickness)))),
                              FDiv(FSub(FAdd(k, r), mu), FAdd(FAdd(k, r), mu)))))) :
            k \in {SingleLayer_k(m, L)}, r \in {SingleLayer_r(m)},
            mu \in {SingleLayer_mu(m, L)}})

SingleLayer_upwelling(m, z, L) ==
    Only({FMul(SingleLayer_A(m, L),
               FSub(FExp(FMul(mu, Metres(z))),
                    FDiv(FExp(FMul(FNeg(mu), Metres(z))),
                         FExp(FMul(Number(2 * One), FMul(mu, Metres(m.ice_thickness))))))) :
            mu \in {SingleLayer_mu(m, L)}})

SingleLayer_downwelling(m, z, L) ==
    Only({FAdd(FMul(C, FExp(FMul(mu, Metres(z)))),
               FMul(FSub(Number(One), C), FExp(FMul(FNeg(mu), Metres(z))))) :
            mu \in {SingleLayer_mu(m, L)},
            C \in {FDiv(SingleLayer_A(m, L), SingleLayer_s(m, L))}})

\* a plausible bug: the albedo of a layer of unbounded thickness
SingleLayer_albedo_thick(m, L) ==
    Only({FDiv(r, FAdd(FAdd(SingleLayer_k(m, L), r), mu)) :
            r \in {SingleLayer_r(m)}, mu \in {SingleLayer_mu(m, L)}})

SingleLayer_albedo(m, L) ==
    Only({FDiv(r, FAdd(FAdd(SingleLayer_k(m, L), r),
                       FDiv(mu, FTanh(FMul(mu, Metres(m.ice_thickness)))))) :
            r \in {SingleLayer_r(m)}, mu \in {SingleLayer_mu(m, L)}})

SingleLayer_transmittance(m, L) == SingleLayer_downwelling(m, 0 - m.ice_thickness, L)

SingleLayer_heating(m, z, L) ==
    FMul(SingleLayer_k(m, L),
         FAdd(SingleLayer_upwelling(m, z, L), SingleLayer_downwelling(m, z, L)))

\* ----------------------------------------------------- oilrad/two_layer.py

TwoLayerModel(oil_mass_ratio, thickness_ratio, ice_thickness, ice_type) ==
    [kind |-> "TwoLayerModel", oil_mass_ratio |-> oil_mass_ratio,
     thickness_ratio |-> thickness_ratio, ice_thickness |-> ice_thickness,
     ice_type |-> ice_type]

\* a plausible bug: the top sub-layer is given the uniform concentration
top_oil_mass_ratio_uniform(m) ==
    IF m.thickness_ratio = 0 THEN Raise("ZeroDivisionError")
    ELSE Ok(m.oil_mass_ratio)

\* oil_mass_ratio / thickness_ratio, a division of Python floats: it raises
\* ZeroDivisionError for thickness_ratio = 0.  In ng oil / g ice, rounded down.
top_oil_mass_ratio(m) ==
    IF m.thickness_ratio = 0 THEN Raise("ZeroDivisionError")
    ELSE Ok(Div(m.oil_mass_ratio, m.thickness_ratio))

TwoLayer_r(m) ==
    Number(calculate_ice_scattering_coefficient_from_Roche_2022(m.ice_type))
TwoLayer_k1(m, L) ==
    calculate_ice_oil_absorption_coefficient(
        L, top_oil_mass_ratio(m).val, median_droplet_radius)
TwoLayer_k2(m, L) ==
    calculate_ice_oil_absorption_coefficient(L, 0, median_droplet_radius)
TwoLayer_mu1(m, L) ==
    calculate_ice_oil_extinction_coefficient(
        L, top_oil_mass_ratio(m).val, m.ice_type, median_droplet_radius)
TwoLayer_mu2(m, L) ==
    calculate_ice_oil_extinction_coefficient(L, 0, m.ice_type, median_droplet_radius)
TwoLayer_s1(m, L) ==
    Only({FDiv(FSub(mu1, k1), FAdd(mu1, k1)) :
            mu1 \in {TwoLayer_mu1(m, L)}, k1 \in {TwoLayer_k1(m, L)}})
TwoLayer_s2(m, L) ==
    Only({FDiv(FSub(mu2, k2), FAdd(mu2, k2)) :
            mu2 \in {TwoLayer_mu2(m, L)}, k2 \in {TwoLayer_k2(m, L)}})

\* thickness_ratio * ice_thickness and (1 - thickness_ratio) * ice_thickness,
\* in metres
top_thickness(m) == FMul(Number(m.thickness_ratio), Metres(m.ice_thickness))
bottom_thickness(m) == FMul(Number(One - m.thickness_ratio), Metres(m.ice_thickness))

TwoLayer_optical_depth1(m, L) == FMul(top_thickness(m), TwoLayer_mu1(m, L))
TwoLayer_optical_depth2(m, L) == FMul(bottom_thickness(m), TwoLayer_mu2(m, L))

TwoLayer_gamma1(m, L) ==
    Only({FDiv(r, FAdd(FAdd(FDiv(mu1, FTanh(FMul(top_thickness(m), mu1))),
                            TwoLayer_k1(m, L)), r)) :
            r \in {TwoLayer_r(m)}, mu1 \in {TwoLayer_mu1(m, L)}})
TwoLayer_gamma2(m, L) ==
    Only({FDiv(r, FAdd(FAdd(FDiv(mu2, FTanh(FMul(bottom_thickness(m), mu2))),
                            TwoLayer_k2(m, L)), r)) :
            r \in {TwoLayer_r(m)}, mu2 \in {TwoLayer_mu2(m, L)}})

\* the value of the albedo property
TwoLayer_albedo_value(m, L) ==
    Only({FMul(FDiv(gamma1, FSub(Number(One), FMul(gamma1, TwoLayer_gamma2(m, L)))),
               FAdd(Number(One),
                    FDiv(FSub(FDiv(mu1, FTanh(FMul(top_thickness(m), mu1))),
                              FAdd(TwoLayer_k1(m, L), TwoLayer_r(m))),
                         FAdd(FDiv(mu2, FTanh(FMul(bottom_thickness(m), mu2))),
                              FAdd(TwoLayer_k2(m, L), TwoLayer_r(m)))))) :
            gamma1 \in {TwoLayer_gamma1(m, L)},
            mu1 \in {TwoLayer_mu1(m, L)}, mu2 \in {TwoLayer_mu2(m, L)}})

\* a plausible bug: the sinh of the bottom sub-layer's optical depth
TwoLayer_A2_bottom_depth(m, L) ==
    Only({FMul(FMul(FDiv(TwoLayer_r(m), mu1), FSinh(FMul(bottom_thickness(m), mu1))),
               FSub(FDiv(TwoLayer_albedo_value(m, L), TwoLayer_gamma1(m, L)),
                    Number(One))) :
            mu1 \in {TwoLayer_mu1(m, L)}})

TwoLayer_A2(m, L) ==
    Only({FMul(FMul(FDiv(TwoLayer_r(m), mu1), FSinh(FMul(top_thickness(m), mu1))),
               FSub(FDiv(TwoLayer_albedo_value(m, L), TwoLayer_gamma1(m, L)),
                    Number(One))) :
            mu1 \in {TwoLayer_mu1(m, L)}})

upwelling_1(m, z, L) ==
    Only({FMul(FDiv(TwoLayer_r(m), FMul(Number(2 * One), mu1)),
               FAdd(FMul(FSub(Number(One), FMul(albedo, s1)), FExp(FMul(mu1, Metres(z)))),
                    FMul(FSub(FDiv(albedo, s1), Number(One)),
                         FExp(FMul(FNeg(mu1), Metres(z)))))) :
            mu1 \in {TwoLayer_mu1(m, L)}, s1 \in {TwoLayer_s1(m, L)},
            albedo \in {TwoLayer_albedo_value(m, L)}})

downwelling_1(m, z, L) ==
    Only({FMul(FDiv(TwoLayer_r(m), FMul(Number(2 * One), mu1)),
               FAdd(FMul(FSub(FDiv(Number(One), s1), albedo), FExp(FMul(mu1, Metres(z)))),
                    FMul(FSub(albedo, s1), FExp(FMul(FNeg(mu1), Metres(z)))))) :
            mu1 \in {TwoLayer_mu1(m, L)}, s1 \in {TwoLayer_s1(m, L)},
            albedo \in {TwoLayer_albedo_value(m, L)}})

upwelling_2(m, z, L) ==
    Only({FMul(FDiv(TwoLayer_A2(m, L), Number(2 * One)),
               FAdd(FMul(FAdd(Number(One), coth), FExp(FMul(mu2, Metres(z)))),
                    FMul(FSub(Number(One), coth), FExp(FMul(FNeg(mu2), Metres(z)))))) :
            mu2 \in {TwoLayer_mu2(m, L)},
            coth \in {FDiv(Number(One), FTanh(TwoLayer_optical_depth2(m, L)))}})

downwelling_2(m, z, L) ==
    Only({FMul(FDiv(TwoLayer_A2(m, L), Number(2 * One)),
               FSub(FMul(FDiv(FAdd(Number(One), coth), s2), FExp(FMul(mu2, Metres(z)))),
                    FMul(FMul(s2, FSub(coth, Number(One))),
                         FExp(FMul(FNeg(mu2), Metres(z)))))) :
            mu2 \in {TwoLayer_mu2(m, L)}, s2 \in {TwoLayer_s2(m, L)},
            coth \in {FDiv(Number(One), FTanh(TwoLayer_optical_depth2(m, L)))}})

\* boundary = -self.ice_thickness * self.thickness_ratio, in millimetres
boundary_of(m) == 0 - WideMul(m.ice_thickness, m.thickness_ratio)

\* a plausible bug: the interface is given to the bottom sub-layer
make_piecewise_strict(func1, func2, boundary, z) ==
    [j \in 1..Len(z) |-> IF z[j] > boundary THEN func1[z[j]] ELSE func2[z[j] - boundary]]

\* a plausible bug: the bottom sub-layer's formula is given the depth unshifted
make_piecewise_unshifted(func1, func2, boundary, z) ==
    [j \in 1..Len(z) |-> IF z[j] >= boundary THEN func1[z[j]] ELSE func2[z[j]]]

\* make_piecewise(func1, func2, boundary)(z, L) over an array z; func1 and
\* func2 are given by their values at the depths they are called with
make_piecewise(func1, func2, boundary, z) ==
    [j \in 1..Len(z) |-> IF z[j] >= boundary THEN func1[z[j]] ELSE func2[z[j] - boundary]]

\* the depths either sub-layer's formula can be called with
Shifted(z, boundary) ==
    {z[j] : j \in 1..Len(z)} \cup {z[j] - boundary : j \in 1..Len(z)}

TwoLayer_albedo(m, L) ==
    IF ~top_oil_mass_ratio(m).ok THEN Raise(top_oil_mass_ratio(m).err)
    ELSE Ok(TwoLayer_albedo_value(m, L))

TwoLayer_downwelling(m, z, L) ==
    IF ~top_oil_mass_ratio(m).ok THEN Raise(top_oil_mass_ratio(m).err)
    ELSE Ok(make_piecewise(
             [x \in Shifted(z, boundary_of(m)) |-> downwelling_1(m, x, L)],
             [x \in Shifted(z, boundary_of(m)) |-> downwelling_2(m, x, L)],
             boundary_of(m), z))

TwoLayer_upwelling(m, z, L) ==
    IF ~top_oil_mass_ratio(m).ok THEN Raise(top_oil_mass_ratio(m).err)
    ELSE Ok(make_piecewise(
             [x \in Shifted(z, boundary_of(m)) |-> upwelling_1(m, x, L)],
             [x \in Shifted(z, boundary_of(m)) |-> upwelling_2(m, x, L)],
             boundary_of(m), z))

\* a plausible bug: the interface gets the absorption of the bottom sub-layer
TwoLayer_k_cts_strict(m, z, L) ==
    [j \in 1..Len(z) |->
        IF z[j] > boundary_of(m) THEN TwoLayer_k1(m, L) ELSE TwoLayer_k2(m, L)]

\* k_cts(z, L): region 1 is z >= -thickness_ratio * ice_thickness
TwoLayer_k_cts(m, z, L) ==
    [j \in 1..Len(z) |->
        IF z[j] >= boundary_of(m) THEN TwoLayer_k1(m, L) ELSE TwoLayer_k2(m, L)]

\* heating(z, L) = k_cts(z, L) * (upwelling(z, L) + downwelling(z, L))
TwoLayer_heating(m, z, L) ==
    IF ~top_oil_mass_ratio(m).ok THEN Raise(top_oil_mass_ratio(m).err)
    ELSE Ok(Only({[j \in 1..Len(z) |-> FMul(k[j], FAdd(up[j], down[j]))] :
                    k \in {TwoLayer_k_cts(m, z, L)},
                    up \in {TwoLayer_upwelling(m, z, L).val},
                    down \in {TwoLayer_downwelling(m, z, L).val}}))

\* ------------------------------------------------- the layer models' methods

\* model.albedo(L), model.upwelling(z, L) and model.downwelling(z, L) of either
\* layer model, z an array: what is returned or raised
Layer_albedo(m, L) ==
    IF m.kind = "SingleLayerModel" THEN Ok(SingleLayer_albedo(m, L))
    ELSE TwoLayer_albedo(m, L)
Layer_upwelling(m, z, L) ==
    IF m.kind = "SingleLayerModel"
    THEN Ok([j \in 1..Len(z) |-> SingleLayer_upwelling(m, z[j], L)])
    ELSE TwoLayer_upwelling(m, z, L)
Layer_downwelling(m, z, L) ==
    IF m.kind = "SingleLayerModel"
    THEN Ok([j \in 1..Len(z) |-> SingleLayer_downwelling(m, z[j], L)])
    ELSE TwoLayer_downwelling(m, z, L)

\* ------------------------------------------------------------- the inputs

\* the grid of n points from the base of the domain up to the surface at 0
Grid(n) == [k \in 1..n |-> 0 - (n - k) * 500]

Wavelengths == {1000, 1100, 1200, 1300}
Cutoffs == {1200}
SSLDepths == {0 - 10, 0, 40}
SnowDepths == {0, 20}
LiquidFractions(n) == [1..n -> {0, One}]
\* the lowest k grid points liquid, ice above
IceOverWater(n, k) == [j \in 1..n |-> IF j <= k THEN One ELSE 0]
Spectra == {BlackBodySpectrum(350, 3000), BlackBodySpectrum(1100, 1200)}

\* the arrays of at most m wavelengths in ascending order, repeats allowed
Ascending(w) == \A k \in 1..(Len(w) - 1) : w[k] <= w[k + 1]
WavelengthArrays(m) ==
    {w \in UNION {[1..l -> Wavelengths] : l \in 1..m} : Ascending(w)}

\* a snow depth below zero (mm), on a frozen domain with a valid SSL depth
NegativeSnow ==
    {SixBandModel(Grid(NGrid), ssl, 0 - 1, None) : ssl \in {0, 40}}

Models ==
    {SixBandModel(Grid(NGrid), ssl, snow, lf) :
        ssl \in SSLDepths, snow \in SnowDepths,
        lf \in LiquidFractions(NGrid) \cup {None}}
    \cup NegativeSnow
    \cup
    {CtsWavelengthModel(Grid(NGrid), w, IceOverWater(NGrid, k), f, c) :
        w \in WavelengthArrays(MaxWavelengths), k \in {0, 1, NGrid},
        f \in BOOLEAN, c \in Cutoffs}

\* the layer models: valid ones, single layers of a thickness out of range
\* and two layers of a thickness ratio out of range (thicknesses in mm)
OilMassRatios == {0, 1000}
IceTypes == {"FYI", "MELT"}
IceThicknesses == {0 - 500, 0, 1000}
ThicknessRatios == {0 - 5000, 0, 2500, 5000, One, 15000}
LayerModels ==
    {SingleLayerModel(oil, h, t) :
        oil \in OilMassRatios, h \in IceThicknesses, t \in IceTypes}
    \cup
    {TwoLayerModel(oil, f, 1000, t) :
        oil \in OilMassRatios, f \in ThicknessRatios, t \in IceTypes}
\* wavelengths in nm, the first and the last outside the tables
LayerWavelengths == {550, 625, 700, 750}
\* the wavelengths heating is called with: one inside the tables, one outside
HeatingWavelengths == {625, 750}
\* arrays of at most m evaluation depths, in any order
Depths == {0, 0 - 500, 0 - 1000}
DepthArrays(m) == UNION {[1..l -> Depths] : l \in 1..m}

\* --------------------------------------------------------------- the state

VARIABLES
    model,        \* the model object handed to solve_two_stream_model
    pc,           \* where the call is: start, loop, returned, raised, constructed
    i,            \* the index of the loop over wavelengths or bands
    upwelling,    \* the array being filled
    downwelling,
    calls,        \* the calls the solve has made, each <<callee, wavelength or band>>
    error,        \* the exception that ended solve_two_stream_model
    bvp,          \* what solve_bvp has shown so far, per wavelength or band
    results,      \* the spectral result returned, per fast_solve flag
    broadband,    \* what the last integrate_over_SW returned
    integration,  \* the last integrate_over_SW call: its arguments and its error
    layer,        \* the SingleLayerModel or TwoLayerModel object
    reply         \* the last method call on layer, or assignment to a field of
                  \* the model or of a result: its arguments and its outcome

vars == <<model, pc, i, upwelling, downwelling, calls, error, bvp, results,
          broadband, integration, layer, reply>>

NoLayer == SingleLayerModel(0, 1000, "FYI")
NoReply == [op |-> "none", L |-> 0, z |-> <<>>, out |-> Ok(0)]

NoError == [type |-> "none", message |-> ""]
NoIntegration ==
    [called |-> FALSE, of |-> FALSE, spectrum |-> NoSpectrum, err |-> "none",
     calls |-> <<>>]

Keys == Wavelengths \cup {0, 1, 2, 3, 4, 5}

Init ==
    /\ model \in Models
    /\ pc = "start"
    /\ i = 0
    /\ upwelling = <<>>
    /\ downwelling = <<>>
    /\ calls = <<>>
    /\ error = NoError
    /\ bvp = [k \in Keys |-> Unknown]
    /\ results = [f \in BOOLEAN |-> NoResult]
    /\ broadband = NoBroadband
    /\ integration = NoIntegration
    /\ layer = NoLayer
    /\ reply = NoReply

\* what solve_bvp can return for key k: what it returned before, if called before
Shows(k) == IF bvp[k].known THEN {bvp[k]} ELSE Outcomes

Logged(r, k) == [c \in 1..Len(r.calls) |-> <<r.calls[c], k>>]

\* solve.py 26-27 and 56-57: the arrays are allocated
Begin ==
    /\ pc = "start"
    /\ pc' = "loop"
    /\ i' = 0
    /\ upwelling' = Empty(IF model.kind = "SixBandModel" THEN 6
                          ELSE Len(model.wavelengths))
    /\ downwelling' = upwelling'
    /\ calls' = <<>>
    /\ error' = NoError
    /\ UNCHANGED <<layer, reply>>
    /\ UNCHANGED <<model, bvp, results, broadband, integration>>

\* one turn of a loop: r is what the solve of key k returned or raised
Turn(r, k, o) ==
    /\ calls' = calls \o Logged(r, k)
    /\ bvp' = IF \E c \in 1..Len(r.calls) : r.calls[c] = BVP
              THEN [bvp EXCEPT ![k] = o] ELSE bvp
    /\ IF r.ok
       THEN /\ upwelling' = [upwelling EXCEPT ![i + 1] = r.up]
            /\ downwelling' = [downwelling EXCEPT ![i + 1] = r.down]
            /\ i' = i + 1
            /\ UNCHANGED <<pc, error>>
       ELSE /\ pc' = "raised"
            /\ error' = [type |-> r.err, message |-> r.message]
            /\ UNCHANGED <<upwelling, downwelling, i>>
    /\ UNCHANGED <<layer, reply>>
    /\ UNCHANGED <<model, results, broadband, integration>>

\* solve.py 34-39 and 45-50
StepWavelength ==
    /\ pc = "loop"
    /\ model.kind = "CtsWavelengthModel"
    /\ i < Len(interior(model))
    /\ LET wavelength == interior(model)[i + 1] IN
       \E o \in Shows(wavelength) :
           Turn(solve_at_given_wavelength(model, wavelength, o), wavelength, o)

\* solve.py 41-43 and 51-53
ReturnCts ==
    /\ pc = "loop"
    /\ model.kind = "CtsWavelengthModel"
    /\ i = Len(interior(model))
    /\ upwelling' = IF model.fast_solve THEN fast_path_upwelling(model, upwelling)
                    ELSE upwelling
    /\ downwelling' = IF model.fast_solve
                      THEN fast_path_downwelling(model, downwelling)
                      ELSE downwelling
    /\ results' = [results EXCEPT ![model.fast_solve] =
                      SpectralIrradiance(model.z, model.wavelengths, upwelling',
                                         downwelling', model.ice_base_index)]
    /\ pc' = "returned"
    /\ UNCHANGED <<layer, reply>>
    /\ UNCHANGED <<model, i, calls, error, bvp, broadband, integration>>

\* solve.py 58-61
StepBand ==
    /\ pc = "loop"
    /\ model.kind = "SixBandModel"
    /\ i < Len(WAVELENGTH_BAND_INDICES)
    /\ LET index == WAVELENGTH_BAND_INDICES[i + 1] IN
       \E o \in Shows(index) :
           Turn(solve_a_wavelength_band(model, index, o), index, o)

\* solve.py 63-70
ReturnSix ==
    /\ pc = "loop"
    /\ model.kind = "SixBandModel"
    /\ i = Len(WAVELENGTH_BAND_INDICES)
    /\ results' = [results EXCEPT ![model.fast_solve] =
                      SixBandSpectralIrradiance(model.z, upwelling, downwelling,
                                                model.snow_depth, model.SSL_depth,
                                                model.ice_base_index)]
    /\ pc' = "returned"
    /\ UNCHANGED <<layer, reply>>
    /\ UNCHANGED <<model, i, upwelling, downwelling, calls, error, bvp, broadband,
                   integration>>

\* test_cts_wavelength_fast_solve: the model that differs in fast_solve alone is
\* built and solved next
SolveOther ==
    /\ pc \in {"returned", "raised"}
    /\ model.kind = "CtsWavelengthModel"
    /\ results[~model.fast_solve] = NoResult
    /\ results[model.fast_solve] # NoResult
    /\ model' = CtsWavelengthModel(model.z, model.wavelengths, model.liquid_fraction,
                                   ~model.fast_solve, model.wavelength_cutoff)
    /\ pc' = "start"
    /\ UNCHANGED <<layer, reply>>
    /\ UNCHANGED <<i, upwelling, downwelling, calls, error, bvp, results, broadband,
                   integration>>

\* A SixBandSpectralIrradiance built by its constructor from arrays of the
\* caller's, not by a solve; _ice_base_index keeps its default.
Construct ==
    /\ pc \in {"start", "raised"}
    /\ results[FALSE] = NoResult
    /\ model.kind = "SixBandModel"
    /\ \E p \in 1..Len(Profiles) :
          LET c == Column(p, Len(model.z), One, TRUE) IN
          results' = [results EXCEPT ![FALSE] =
                         SixBandSpectralIrradiance(
                             model.z, [b \in 1..6 |-> c.up], [b \in 1..6 |-> c.down],
                             model.snow_depth, model.SSL_depth, 0)]
    /\ pc' = "constructed"
    /\ UNCHANGED <<layer, reply>>
    /\ UNCHANGED <<model, i, upwelling, downwelling, calls, error, bvp, broadband,
                   integration>>

\* integrate_over_SW(results[f], spectrum)
Integrate ==
    /\ pc \in {"returned", "raised", "constructed"}
    /\ \E f \in BOOLEAN, spectrum \in Spectra \cup {NoSpectrum} :
          /\ results[f] # NoResult
          /\ \E r \in {integrate_over_SW(results[f], spectrum)} :
             /\ broadband' = IF r.ok THEN r.val ELSE NoBroadband
             /\ integration' = [called |-> TRUE, of |-> f, spectrum |-> spectrum,
                                err |-> r.err, calls |-> r.calls]
    /\ UNCHANGED <<layer, reply>>
    /\ UNCHANGED <<model, pc, i, upwelling, downwelling, calls, error, bvp, results>>

Next ==
    \/ Begin
    \/ StepWavelength
    \/ ReturnCts
    \/ StepBand
    \/ ReturnSix
    \/ SolveOther
    \/ Construct
    \/ Integrate

Spec == Init /\ [][Next]_vars

\* ------------------------------------------------- calls on a layer model

\* the largest number of depths in one call of upwelling or downwelling
MaxDepths == 2

LayerInit ==
    /\ model = SixBandModel(Grid(NGrid), 0, 0, None)
    /\ pc = "start"
    /\ i = 0
    /\ upwelling = <<>>
    /\ downwelling = <<>>
    /\ calls = <<>>
    /\ error = NoError
    /\ bvp = [k \in Keys |-> Unknown]
    /\ results = [f \in BOOLEAN |-> NoResult]
    /\ broadband = NoBroadband
    /\ integration = NoIntegration
    /\ layer \in LayerModels
    /\ reply = NoReply

Replied(op, L, z, out) ==
    /\ reply' = [op |-> op, L |-> L, z |-> z, out |-> out]
    /\ UNCHANGED <<model, pc, i, upwelling, downwelling, calls, error, bvp, results,
                   broadband, integration, layer>>

\* layer.albedo(L)
CallAlbedo ==
    /\ reply = NoReply
    /\ \E L \in LayerWavelengths : Replied("albedo", L, <<>>, Layer_albedo(layer, L))

\* layer.transmittance(L) of a SingleLayerModel
CallTransmittance ==
    /\ reply = NoReply
    /\ layer.kind = "SingleLayerModel"
    /\ \E L \in LayerWavelengths :
          Replied("transmittance", L, <<>>, Ok(SingleLayer_transmittance(layer, L)))

\* layer.upwelling(z, L)
CallUpwelling ==
    /\ reply = NoReply
    /\ \E L \in LayerWavelengths, z \in DepthArrays(MaxDepths) :
          Replied("upwelling", L, z, Layer_upwelling(layer, z, L))

\* layer.downwelling(z, L)
CallDownwelling ==
    /\ reply = NoReply
    /\ \E L \in LayerWavelengths, z \in DepthArrays(MaxDepths) :
          Replied("downwelling", L, z, Layer_downwelling(layer, z, L))

\* layer.heating(z, L) of a TwoLayerModel
CallHeating ==
    /\ reply = NoReply
    /\ layer.kind = "TwoLayerModel"
    /\ \E L \in HeatingWavelengths, z \in DepthArrays(MaxDepths) :
          Replied("heating", L, z, TwoLayer_heating(layer, z, L))

LayerNext ==
    \/ CallAlbedo
    \/ CallTransmittance
    \/ CallUpwelling
    \/ CallDownwelling
    \/ CallHeating

LayerSpec == LayerInit /\ [][LayerNext]_vars

\* --------------------------------------------------------------- the claims

full == results[FALSE]
fast == results[TRUE]
IsCts(r) == r.kind = "SpectralIrradiance"
IsSix(r) == r.kind = "SixBandSpectralIrradiance"
StrictlyAscending(w) == \A k \in 1..(Len(w) - 1) : w[k] < w[k + 1]

\* the fast path column: upwelling 0, downwelling 0 but 1 at the surface node
IsFastPathColumn(r, c) ==
    /\ \A d \in 1..Len(r.z) : r.upwelling[c][d] = 0
    /\ \A d \in 1..(Len(r.z) - 1) : r.downwelling[c][d] = 0
    /\ r.downwelling[c][Len(r.z)] = One

\* the 0-based index of the first wavelength nearest to the cutoff
Nearest(w, cutoff) ==
    CHOOSE j \in 0..(Len(w) - 1) :
        /\ \A k \in 1..Len(w) : Abs(w[j + 1] - cutoff) <= Abs(w[k] - cutoff)
        /\ \A k \in 1..j : Abs(w[k] - cutoff) > Abs(w[j + 1] - cutoff)

\* C1 as stated: when the same continuous-wavelength model, its wavelengths in
\* ascending order, has been solved with fast_solve disabled and with fast_solve
\* enabled, the two albedos agree at every wavelength strictly below the cutoff.
C1_FastPathConsistency ==
    (IsCts(full) /\ IsCts(fast) /\ Ascending(model.wavelengths)) =>
        \A k \in 1..Len(model.wavelengths) :
            model.wavelengths[k] < model.wavelength_cutoff =>
                spectral_albedo(full)[k] = spectral_albedo(fast)[k]

\* C1 amended: the same for wavelengths in strictly ascending order (none
\* repeated): every wavelength below the cutoff then lies before the cut-off
\* index, so the fast path is not applied to it, and the two albedos agree there.
C1_FastPathConsistencyStrict ==
    (IsCts(full) /\ IsCts(fast) /\ StrictlyAscending(model.wavelengths)) =>
        \A k \in 1..Len(model.wavelengths) :
            model.wavelengths[k] < model.wavelength_cutoff =>
                /\ k - 1 <= Nearest(model.wavelengths, model.wavelength_cutoff)
                /\ spectral_albedo(full)[k] = spectral_albedo(fast)[k]

\* both runs returned, a wavelength below the cutoff was solved to a non-zero
\* albedo and a later column took the fast path
C1_Witness ==
    /\ IsCts(full) /\ IsCts(fast)
    /\ StrictlyAscending(model.wavelengths)
    /\ \E k \in 1..Len(model.wavelengths) :
          /\ model.wavelengths[k] < model.wavelength_cutoff
          /\ spectral_albedo(fast)[k] > 0
    /\ \E k \in 1..Len(model.wavelengths) : IsFastPathColumn(fast, k)

\* C2 as stated: in a fast-solve result every wavelength above the cutoff has
\* the fast path column.
C2_AboveCutoffIsFastPath ==
    IsCts(fast) =>
        \A k \in 1..Len(fast.wavelengths) :
            fast.wavelengths[k] > model.wavelength_cutoff => IsFastPathColumn(fast, k)

\* C2 amended: in a fast-solve result every wavelength at an index greater than
\* that of the first wavelength nearest to the cutoff has the fast path column.
C2_AfterNearestIsFastPath ==
    IsCts(fast) =>
        \A k \in 1..Len(fast.wavelengths) :
            k - 1 > Nearest(fast.wavelengths, model.wavelength_cutoff) =>
                IsFastPathColumn(fast, k)

\* a fast-solve result with a wavelength above the cutoff on the fast path
C2_Witness ==
    /\ IsCts(fast)
    /\ \E k \in 1..Len(fast.wavelengths) :
          /\ fast.wavelengths[k] > model.wavelength_cutoff
          /\ k - 1 > Nearest(fast.wavelengths, model.wavelength_cutoff)
          /\ IsFastPathColumn(fast, k)

\* the keys of the calls made so far to callee f
CallsTo(f) == {calls[c][2] : c \in {c \in 1..Len(calls) : calls[c][1] = f}}

\* C3: band 5 of the six-band model bypasses the boundary value solve: it calls
\* neither solve_bvp nor the ODE and boundary condition builders, cannot raise
\* whatever solve_bvp would do and whatever the SSL depth, and its column is
\* upwelling 0, downwelling 0 but the band-5 snow transmittance at the surface.
C3_HighestBandBypass ==
    model.kind = "SixBandModel" =>
        /\ \A o \in Outcomes, ssl \in SSLDepths :
              LET r == solve_a_wavelength_band([model EXCEPT !.SSL_depth = ssl], 5, o)
              IN  /\ r.ok
                  /\ r.calls = <<>>
                  /\ r.up = Zeros(Len(model.z))
                  /\ r.down = SetIdx(Zeros(Len(model.z)), -1,
                                     calculate_band_snow_transmittance(model.snow_depth, 5))
        /\ (pc \in {"loop", "returned"} /\ i = 6) =>
              /\ \A f \in {ODE, BC, BVP} : 5 \notin CallsTo(f)
              /\ ~bvp[5].known
              /\ \A d \in 1..Len(model.z) : upwelling[6][d] = 0
              /\ \A d \in 1..(Len(model.z) - 1) : downwelling[6][d] = 0
              /\ downwelling[6][Len(model.z)] =
                     calculate_band_snow_transmittance(model.snow_depth, 5)

\* a solve with an SSL returned, band 4 went through solve_bvp and band 5 holds
\* the snow transmittance, which the SSL would have attenuated to nothing
C3_Witness ==
    /\ pc = "returned"
    /\ IsSix(full)
    /\ model.SSL_depth > 0
    /\ 4 \in CallsTo(BVP)
    /\ full.downwelling[6][Len(model.z)] > 0
    /\ get_BC_fun(model, 5).val = 0

\* the albedo of the ice alone in band b, upwelling at the ice surface per unit
\* downwelling entering it: what the boundary value solve shows of the ice; the
\* highest band reflects nothing
IceOnlyAlbedo(b) == IF b = 5 THEN 0 ELSE Profiles[bvp[b].profile].albedo

\* C4: the per-band albedo of a solved six-band result is snow_albedo +
\* snow_transmittance * SSL_albedo + snow_transmittance * SSL_transmittance *
\* ice_albedo, with ice_albedo the albedo of the ice alone.
C4_CombinedAlbedo ==
    (pc = "returned" /\ IsSix(full)) =>
        /\ six_band_albedo(full).ok
        /\ \A b \in 0..5 :
              six_band_albedo(full).val[b + 1] =
                  calculate_band_snow_albedo(full.snow_depth, b)
                  + Mul(calculate_band_snow_transmittance(full.snow_depth, b),
                        calculate_band_SSL_albedo(full.SSL_depth, b).val)
                  + Mul(Mul(calculate_band_snow_transmittance(full.snow_depth, b),
                            calculate_band_SSL_transmittance(full.SSL_depth, b).val),
                        IceOnlyAlbedo(b))

\* C5: with SSL_depth = 0 the SSL albedo is 0 and the SSL transmittance exactly
\* 1 in every band, the surface boundary value is the snow transmittance alone
\* and the combined albedo has no SSL term.
C5_NoSSL ==
    (model.kind = "SixBandModel" /\ model.SSL_depth = 0) =>
        /\ \A b \in 0..5 :
              /\ calculate_band_SSL_albedo(model.SSL_depth, b) = Ok(0)
              /\ calculate_band_SSL_transmittance(model.SSL_depth, b) = Ok(One)
              /\ get_BC_fun(model, b) =
                     Ok(calculate_band_snow_transmittance(model.snow_depth, b))
        /\ IsSix(full) =>
              /\ six_band_albedo(full).ok
              /\ \A b \in 0..5 :
                    six_band_albedo(full).val[b + 1] =
                        calculate_band_snow_albedo(full.snow_depth, b)
                        + Mul(calculate_band_snow_transmittance(full.snow_depth, b),
                              Idx(full.upwelling[b + 1], -1))
        /\ pc = "returned" =>
              \A b \in 0..4 :
                  Idx(full.downwelling[b + 1], -1) =
                      calculate_band_snow_transmittance(model.snow_depth, b)

\* a solve under snow and no SSL returned; the surface downwelling of band 0 is
\* the snow transmittance, strictly between 0 and 1
C5_Witness ==
    /\ pc = "returned"
    /\ IsSix(full)
    /\ model.SSL_depth = 0
    /\ model.snow_depth > 0
    /\ Idx(full.downwelling[1], -1) = calculate_band_snow_transmittance(model.snow_depth, 0)
    /\ Idx(full.downwelling[1], -1) \in 1..(One - 1)

\* C6: a negative SSL_depth is rejected with a ValueError and nothing is
\* produced: the solve raises at band 0 before any boundary value solve, the
\* albedo accessor raises, and integrate_over_SW raises.
C6_NegativeSSLRejected ==
    (model.kind = "SixBandModel" /\ model.SSL_depth < 0) =>
        /\ pc # "returned"
        /\ pc = "loop" => (i = 0 /\ calls = <<>>)
        /\ (pc = "raised" \/ error # NoError) =>
              /\ error.type = "ValueError"
              /\ i = 0
              /\ calls = <<<<ODE, 0>>, <<BC, 0>>>>
              /\ \A k \in Keys : ~bvp[k].known
              /\ pc = "raised" => full = NoResult
        /\ IsSix(full) =>
              /\ full.SSL_depth < 0
              /\ ~six_band_albedo(full).ok
              /\ six_band_albedo(full).err = "ValueError"
              /\ \A s \in Spectra \cup {NoSpectrum} :
                    /\ ~integrate_over_SW(full, s).ok
                    /\ integrate_over_SW(full, s).err = "ValueError"
        /\ integration.called =>
              (integration.err = "ValueError" /\ broadband = NoBroadband)

\* with a negative SSL depth the solve has raised a ValueError, and
\* integrate_over_SW on a result built with that depth has raised one too
C6_Witness ==
    /\ model.kind = "SixBandModel"
    /\ model.SSL_depth < 0
    /\ error.type = "ValueError"
    /\ IsSix(full)
    /\ integration.called
    /\ integration.err = "ValueError"

\* C7: integrate_over_SW on a continuous-wavelength result without a spectrum
\* raises a ValueError before anything is integrated and returns nothing; on a
\* six-band result (of a valid SSL depth) it succeeds without a spectrum, and a
\* spectrum changes nothing there.
C7_SpectrumRequired ==
    integration.called =>
        LET r == results[integration.of] IN
        /\ (IsCts(r) /\ integration.spectrum = NoSpectrum) =>
              /\ integration.err = "ValueError"
              /\ integration.calls = <<>>
              /\ broadband = NoBroadband
        /\ (IsSix(r) /\ integration.spectrum = NoSpectrum /\ r.SSL_depth >= 0) =>
              /\ integration.err = "none"
              /\ broadband.kind = "SixBandIrradiance"
        /\ IsSix(r) =>
              \A unweighted \in {integrate_over_SW(r, NoSpectrum)} :
                  \A s \in Spectra : integrate_over_SW(r, s) = unweighted

\* integrate_over_SW was called on a continuous-wavelength result without a
\* spectrum and raised
C7_Witness ==
    /\ integration.called
    /\ IsCts(results[integration.of])
    /\ integration.spectrum = NoSpectrum
    /\ integration.err = "ValueError"

\* the wavelengths or bands the running solve hands to solve_bvp, in loop order
RunKeys ==
    IF model.kind = "SixBandModel"
    THEN SelectSeq(WAVELENGTH_BAND_INDICES, LAMBDA b : b # 5)
    ELSE interior(model)

\* the keys of the calls made to solve_bvp, in the order made
BVPKeys ==
    LET made == SelectSeq(calls, LAMBDA c : c[1] = BVP)
    IN  [c \in 1..Len(made) |-> made[c][2]]

\* C8: wavelengths or bands are solved one at a time in index order; while the
\* loop runs every solve made has succeeded, and a RuntimeError is raised at the
\* first failed solve, carries the solver's message, leaves the later
\* wavelengths or bands unattempted and returns no result.
C8_FailFast ==
    /\ pc = "loop" =>
          /\ BVPKeys = SubSeq(RunKeys, 1, IF i > Len(RunKeys) THEN Len(RunKeys) ELSE i)
          /\ \A c \in 1..Len(BVPKeys) : bvp[BVPKeys[c]].success
    /\ (pc = "raised" /\ error.type = "RuntimeError") =>
          /\ i < Len(RunKeys)
          /\ BVPKeys = SubSeq(RunKeys, 1, i + 1)
          /\ \A j \in 1..i : bvp[RunKeys[j]].success
          /\ ~bvp[RunKeys[i + 1]].success
          /\ error.message = bvp[RunKeys[i + 1]].message
          /\ error.message \in Messages
          /\ results[model.fast_solve] = NoResult

\* a solve failed after an earlier one had succeeded and with later wavelengths
\* or bands still to come
C8_Witness ==
    /\ pc = "raised"
    /\ error.type = "RuntimeError"
    /\ i >= 1
    /\ i + 1 < Len(RunKeys)

\* C9: for a well-formed model whose boundary value solves all succeed,
\* solve_two_stream_model does not raise, and integrate_over_SW of its result
\* (with a spectrum that covers the wavelengths, in the continuous case) returns
\* a depth-only result on the model's grid with one upwelling and one
\* downwelling value per grid point.
C9_SolveThenIntegrate ==
    /\ pc = "raised" =>
          \/ model.kind = "SixBandModel" /\ model.SSL_depth < 0
          \/ \E k \in 1..Len(RunKeys) : bvp[RunKeys[k]].known /\ ~bvp[RunKeys[k]].success
    /\ (pc = "returned" /\ integration.called) =>
          LET r == results[integration.of]
              covered == /\ integration.spectrum # NoSpectrum
                         /\ \A k \in 1..Len(r.wavelengths) :
                               /\ r.wavelengths[k] >= integration.spectrum.min_wavelength
                               /\ r.wavelengths[k] <= integration.spectrum.max_wavelength
          IN  (IsSix(r) \/ covered) =>
                  /\ integration.err = "none"
                  /\ broadband.kind = IF IsSix(r) THEN "SixBandIrradiance" ELSE "Irradiance"
                  /\ broadband.z = model.z
                  /\ broadband.upwelling \in [1..Len(model.z) -> Int]
                  /\ broadband.downwelling \in [1..Len(model.z) -> Int]

\* a fast-solve run over two or more wavelengths returned and was integrated
\* over a black body spectrum
C9_Witness ==
    /\ pc = "returned"
    /\ model.fast_solve
    /\ Len(model.wavelengths) >= 2
    /\ integration.called
    /\ integration.of
    /\ integration.err = "none"
    /\ broadband.kind = "Irradiance"
    /\ Len(broadband.downwelling) = Len(model.z)

\* the lowest 0-based grid index with liquid fraction below 1, 0 if there is none
LowestIce(lf) ==
    LET ice == {k \in 1..Len(lf) : lf[k] < One}
    IN  IF ice = {} THEN 0 ELSE (CHOOSE k \in ice : \A j \in ice : k <= j) - 1

\* C10: the ice-base index of a SixBandModel is the lowest grid index with
\* liquid fraction below 1 (0 when liquid_fraction is omitted, all ice or all
\* liquid); the solve copies it into the spectral result and integrate_over_SW
\* into the broadband result, and both transmittances are the downwelling there.
C10_IceBaseIndex ==
    model.kind = "SixBandModel" =>
        /\ model.ice_base_index = LowestIce(model.liquid_fraction)
        /\ SixBandModel(model.z, model.SSL_depth, model.snow_depth, None).ice_base_index = 0
        /\ (\A k \in 1..Len(model.z) : model.liquid_fraction[k] = 0) =>
              model.ice_base_index = 0
        /\ (\A k \in 1..Len(model.z) : model.liquid_fraction[k] = One) =>
              model.ice_base_index = 0
        /\ pc = "returned" =>
              /\ full.ice_base_index = LowestIce(model.liquid_fraction)
              /\ \A c \in 1..6 :
                    spectral_transmittance(full)[c] =
                        full.downwelling[c][LowestIce(model.liquid_fraction) + 1]
        /\ (pc = "returned" /\ integration.called /\ integration.err = "none") =>
              /\ broadband.ice_base_index = LowestIce(model.liquid_fraction)
              /\ broadband_transmittance(broadband) =
                     broadband.downwelling[LowestIce(model.liquid_fraction) + 1]

\* a solved and integrated six-band domain of water under ice: the ice base is
\* at index 1 and the transmittance is the downwelling there, not at either end
C10_Witness ==
    /\ model.kind = "SixBandModel"
    /\ pc = "returned"
    /\ model.ice_base_index = 1
    /\ integration.called
    /\ broadband.ice_base_index = 1
    /\ broadband_transmittance(broadband) = broadband.downwelling[2]
    /\ broadband_transmittance(broadband) # Idx(broadband.downwelling, 0)
    /\ broadband_transmittance(broadband) # Idx(broadband.downwelling, -1)

\* ------------------------------------------------- the layer models' claims

\* the closed form of either sub-layer of the two-layer model at one depth
TopFormula(op, m, z, L) ==
    IF op = "upwelling" THEN upwelling_1(m, z, L) ELSE downwelling_1(m, z, L)
BottomFormula(op, m, z, L) ==
    IF op = "upwelling" THEN upwelling_2(m, z, L) ELSE downwelling_2(m, z, L)

\* C11: the two-layer model evaluates its irradiances piecewise.  With the
\* interface at b = -thickness_ratio * ice_thickness, every element of the
\* depth array at or above b gets the top sub-layer's formula at that depth and
\* every element below b gets the bottom sub-layer's formula at the depth less
\* b; the result has the length and the order of the depth array.
C11_PiecewiseEvaluation ==
    (/\ layer.kind = "TwoLayerModel"
     /\ reply.op \in {"upwelling", "downwelling"}
     /\ reply.out.ok) =>
        LET b == 0 - (layer.thickness_ratio * layer.ice_thickness) \div One
        IN  /\ Len(reply.out.val) = Len(reply.z)
            /\ \A j \in 1..Len(reply.z) :
                  /\ reply.z[j] >= b =>
                        reply.out.val[j] =
                            TopFormula(reply.op, layer, reply.z[j], reply.L)
                  /\ reply.z[j] < b =>
                        reply.out.val[j] =
                            BottomFormula(reply.op, layer, reply.z[j] - b, reply.L)

\* a downwelling profile of a valid two-layer model over an unsorted depth
\* array with one element on the interface and one below it
C11_Witness ==
    /\ layer = TwoLayerModel(1000, 5000, 1000, "FYI")
    /\ reply.op = "downwelling"
    /\ reply.L = 625
    /\ reply.z = <<0 - 1000, 0 - 500>>
    /\ reply.out.ok
    /\ reply.out.val[1] = downwelling_2(layer, 0 - 500, 625)
    /\ reply.out.val[2] = downwelling_1(layer, 0 - 500, 625)
    /\ reply.out.val[1] # downwelling_1(layer, 0 - 1000, 625)

\* the sum over the six bands of the band's cloudy-sky fraction times v[band],
\* the fractions written out in thousandths
BandWeightedSum(v) ==
    (86 * v[1] + 217 * v[2] + 196 * v[3] + 155 * v[4] + 301 * v[5] + 45 * v[6])
        \div 1000

\* C12: integrate_over_SW of a six-band result returns, at every depth, the
\* upwelling and the downwelling that are the sum over the six bands of the
\* band's cloudy-sky fraction times the band's value at that depth, and the
\* broadband albedo that is the sum over the bands of the fraction times the
\* band's combined albedo; the six fractions sum to exactly 1.
C12_BandWeightedIntegration ==
    /\ SumSeq(CLOUDY_SKY_FRACTIONS) = 1000
    /\ Len(CLOUDY_SKY_FRACTIONS) = 6
    /\ (/\ integration.called
        /\ integration.err = "none"
        /\ IsSix(results[integration.of])) =>
          LET r == results[integration.of]
          IN  /\ broadband.kind = "SixBandIrradiance"
              /\ Len(broadband.upwelling) = Len(r.z)
              /\ Len(broadband.downwelling) = Len(r.z)
              /\ \A d \in 1..Len(r.z) :
                    /\ broadband.upwelling[d] =
                           BandWeightedSum([c \in 1..6 |-> r.upwelling[c][d]])
                    /\ broadband.downwelling[d] =
                           BandWeightedSum([c \in 1..6 |-> r.downwelling[c][d]])
              /\ broadband.albedo = BandWeightedSum(six_band_albedo(r).val)

\* an integrated six-band result under snow and a surface scattering layer
\* whose bands differ at the surface, so that the weights matter
C12_Witness ==
    /\ integration.called
    /\ integration.err = "none"
    /\ IsSix(results[integration.of])
    /\ model.snow_depth > 0
    /\ model.SSL_depth > 0
    /\ broadband.kind = "SixBandIrradiance"
    /\ \E c1, c2 \in 1..6 :
          Idx(results[integration.of].downwelling[c1], -1)
              # Idx(results[integration.of].downwelling[c2], -1)
    /\ Idx(broadband.downwelling, -1) > 0
    /\ broadband.albedo > 0
    /\ broadband.albedo = BandWeightedSum(six_band_albedo(results[integration.of]).val)

\* C13: albedo + transmittance is at most 1 in every band, for a configuration
\* of non-negative depths and coefficients.  Stated of the six-band result that
\* solve_two_stream_model returned for a domain whose lowest ice is its surface
\* node, where the transmittance is the downwelling the boundary condition puts
\* at the surface and the albedo is what the solve found above it.
C13_EnergyPartition ==
    (/\ pc = "returned"
     /\ model.kind = "SixBandModel"
     /\ model.snow_depth >= 0
     /\ model.SSL_depth >= 0
     /\ model.ice_base_index = Len(model.z) - 1) =>
        \A c \in 1..6 :
            six_band_albedo(full).val[c] + spectral_transmittance(full)[c] <= One


\* ------------------------------------ the uniform profile, solved numerically

\* _ODE_fun(z, F) of infinite_layer.py for an oil mass ratio that does not
\* depend on z: F = <<upwelling, downwelling>>, k and r the coefficients in 1/m
ODE_fun(k, r, F) ==
    <<Mul(r, F[2]) - Mul(k + r, F[1]), Mul(k + r, F[2]) - Mul(r, F[1])>>

\* F + c * G for a step c in metres
Along(F, c, G) == <<F[1] + Mul(c, G[1]), F[2] + Mul(c, G[2])>>

\* one fourth order Runge-Kutta step of length dz up the column
RungeKutta(k, r, F, dz) ==
    LET k1 == ODE_fun(k, r, F)
        k2 == ODE_fun(k, r, Along(F, dz \div 2, k1))
        k3 == ODE_fun(k, r, Along(F, dz \div 2, k2))
        k4 == ODE_fun(k, r, Along(F, dz, k3))
    IN  <<F[1] + Mul(dz, k1[1] + 2 * k2[1] + 2 * k3[1] + k4[1]) \div 6,
          F[2] + Mul(dz, k1[2] + 2 * k2[2] + 2 * k3[2] + k4[2]) \div 6>>

RECURSIVE Integrated(_, _, _, _, _)
Integrated(k, r, F, dz, steps) ==
    IF steps = 0 THEN F ELSE Integrated(k, r, RungeKutta(k, r, F, dz), dz, steps - 1)

\* mesh intervals of the numerical solve
MeshSteps == 10

\* The solution of the boundary value problem of _solve_at_given_wavelength on
\* a column of depth h (fixed point metres): the two-stream equations with
\* _BCs, no upwelling at the bottom and unit downwelling at the top.  The
\* equations are linear, so the solution is the integral from the bottom
\* with no upwelling and unit downwelling there, divided by the downwelling it
\* reaches at the top.  What is returned are the accessors of the result:
\* albedo = upwelling[-1] and transmittance = downwelling[0].
solve_uniform(k, r, h) ==
    LET F_top == Integrated(k, r, <<0, One>>, h \div MeshSteps, MeshSteps)
    IN  [albedo |-> Div(F_top[1], F_top[2]), transmittance |-> Div(One, F_top[2])]


\* the numerical tolerance of an agreement of two computed values
Tolerance == One \div 100

\* C14: for a uniform column the albedo and the transmittance of the numerical
\* boundary value solve equal, to within the tolerance, the albedo and the
\* transmittance that the single layer's closed form returns for the same
\* thickness, wavelength, oil mass ratio and ice type (positive thickness, a
\* wavelength at which the coefficients are numbers).
C14_ClosedFormAgreesWithSolve ==
    (/\ layer.kind = "SingleLayerModel"
     /\ layer.ice_thickness > 0
     /\ reply.op \in {"albedo", "transmittance"}
     /\ ~SingleLayer_k(layer, reply.L).nan) =>
        LET numerical == solve_uniform(SingleLayer_k(layer, reply.L).val,
                                       SingleLayer_r(layer).val,
                                       Metres(layer.ice_thickness).val)
            closed == reply.out.val
        IN  /\ reply.out.ok
            /\ ~closed.nan /\ closed.inf = 0
            /\ Abs(closed.val - numerical[reply.op]) <= Tolerance

C14_Witness ==
    /\ layer = SingleLayerModel(1000, 1000, "FYI")
    /\ reply.op = "transmittance"
    /\ reply.L = 625
    /\ reply.out.val.val > 0
    /\ reply.out.val.val < One
    /\ solve_uniform(SingleLayer_k(layer, 625).val, SingleLayer_r(layer).val, One).albedo > 0
    /\ Abs(reply.out.val.val
           - solve_uniform(SingleLayer_k(layer, 625).val, SingleLayer_r(layer).val,
                           One).transmittance) \in 1..Tolerance


\* two floats are numbers that differ by the tolerance at most
Close(a, b) == ~a.nan /\ ~b.nan /\ a.inf = 0 /\ b.inf = 0 /\ Abs(a.val - b.val) <= Tolerance

\* C15: in a two-layer model with thickness_ratio strictly between 0 and 1 the
\* top sub-layer's formula at the interface depth and the bottom sub-layer's
\* formula at local coordinate 0 give the same upwelling and the same
\* downwelling, to the tolerance; so an upwelling or downwelling returned for
\* the interface depth is also the bottom sub-layer's value there.
C15_InterfaceContinuity ==
    (/\ layer.kind = "TwoLayerModel"
     /\ layer.thickness_ratio > 0
     /\ layer.thickness_ratio < One
     /\ reply.op \in {"upwelling", "downwelling"}
     /\ ~TwoLayer_k1(layer, reply.L).nan) =>
        LET b == boundary_of(layer)
        IN  /\ Close(upwelling_1(layer, b, reply.L), upwelling_2(layer, 0, reply.L))
            /\ Close(downwelling_1(layer, b, reply.L), downwelling_2(layer, 0, reply.L))
            /\ reply.out.ok
            /\ \A j \in 1..Len(reply.z) :
                  reply.z[j] = b =>
                      Close(reply.out.val[j], BottomFormula(reply.op, layer, 0, reply.L))

C15_Witness ==
    /\ layer = TwoLayerModel(1000, 5000, 1000, "MELT")
    /\ reply.op = "downwelling"
    /\ reply.L = 700
    /\ reply.z = <<0 - 500>>
    /\ reply.out.ok
    /\ reply.out.val[1] = downwelling_1(layer, 0 - 500, 700)
    /\ reply.out.val[1].val > One \div 2
    /\ reply.out.val[1] # downwelling_2(layer, 0, 700)
    /\ Close(reply.out.val[1], downwelling_2(layer, 0, 700))
    /\ ~Close(reply.out.val[1], downwelling_1(layer, 0, 700))


\* C16: a TwoLayerModel whose thickness_ratio is not strictly between 0 and 1
\* yields no albedo and no irradiance: every call on it ends in an error.
C16_ThicknessRatioRejected ==
    (/\ layer.kind = "TwoLayerModel"
     /\ (layer.thickness_ratio <= 0 \/ layer.thickness_ratio >= One)
     /\ reply.op # "none") => ~reply.out.ok

\* C17: a layer model whose ice thickness is zero or negative computes no
\* albedo, transmittance or irradiance: every call on it ends in an error.
C17_ThicknessRejected ==
    (/\ layer.kind = "SingleLayerModel"
     /\ layer.ice_thickness <= 0
     /\ reply.op # "none") => ~reply.out.ok


\* C18: a negative snow depth is rejected by the six-band operations that use
\* it: solve_two_stream_model returns no result for such a model, so that no
\* albedo or transmittance is computed from it.
C18_NegativeSnowRejected ==
    (model.kind = "SixBandModel" /\ model.snow_depth < 0) => pc # "returned"

\* the wavelength (nm) lies inside both tables of optical data
Tabulated(L) ==
    /\ WARREN_WAVELENGTHS[1] <= L * 10
    /\ L * 10 <= WARREN_WAVELENGTHS[Len(WARREN_WAVELENGTHS)]
    /\ MAC_wavelengths[1] <= L
    /\ L <= MAC_wavelengths[Len(MAC_wavelengths)]

\* C19: a wavelength outside the tabulated range of the optical data is
\* surfaced as an error by the coefficient lookup: a call on a layer model at
\* such a wavelength returns no value, and neither the ice absorption
\* coefficient nor the oil absorption coefficient is a clamped number or
\* not-a-number there.
C19_OutOfRangeWavelengthRejected ==
    (reply.op # "none" /\ ~Tabulated(reply.L)) => ~reply.out.ok


\* C20: the two-layer geometry conserves the oil.  For a thickness_ratio other
\* than 0 the top sub-layer's concentration times its thickness is the uniform
\* concentration times the full thickness (exactly where the quotient
\* oil_mass_ratio / thickness_ratio is exact in the fixed point numbers, and to
\* its rounding otherwise), the two thicknesses sum to the full thickness, the
\* interface lies at the depth of the top thickness, and the bottom sub-layer
\* absorbs as ice without oil.
C20_OilMassConserved ==
    (/\ layer.kind = "TwoLayerModel"
     /\ layer.thickness_ratio # 0
     /\ reply.op # "none") =>
        LET top == top_oil_mass_ratio(layer)
            h1 == top_thickness(layer)
            h2 == bottom_thickness(layer)
            whole == layer.oil_mass_ratio * Metres(layer.ice_thickness).val
        IN  /\ top.ok
            /\ reply.out.ok
            /\ Abs(top.val * h1.val - whole) <= Abs(h1.val)
            /\ (/\ layer.thickness_ratio > 0
                /\ (layer.oil_mass_ratio * One) % layer.thickness_ratio = 0) =>
                  /\ top.val * layer.thickness_ratio = layer.oil_mass_ratio * One
                  /\ top.val * h1.val = whole
            /\ FAdd(h1, h2) = Metres(layer.ice_thickness)
            /\ boundary_of(layer) * 10 = 0 - h1.val
            /\ Tabulated(reply.L) =>
                  /\ TwoLayer_k2(layer, reply.L)
                        = Number(calculate_ice_absorption_coefficient(reply.L))
                  /\ TwoLayer_k1(layer, reply.L)
                        = calculate_ice_oil_absorption_coefficient(
                              reply.L, top.val, median_droplet_radius)

C20_Witness ==
    /\ layer = TwoLayerModel(1000, 2500, 1000, "FYI")
    /\ reply.op = "albedo"
    /\ reply.L = 625
    /\ reply.out.ok
    /\ top_oil_mass_ratio(layer) = Ok(4000)
    /\ top_thickness(layer) = Number(2500)
    /\ bottom_thickness(layer) = Number(7500)
    /\ TwoLayer_k1(layer, 625).val > TwoLayer_k2(layer, 625).val


\* the fraction of the incident flux that the snow and the SSL of model m
\* transmit in band b
SurfaceTransmittance(m, b) ==
    Mul(calculate_band_snow_transmittance(m.snow_depth, b),
        calculate_band_SSL_transmittance(m.SSL_depth, b).val)

\* C21: in every one of the six bands of the result of a six-band solve (of a
\* model without a negative depth), the
\* downwelling at the surface node equals snow transmittance times SSL
\* transmittance of the band (1 for bare ice), and the upwelling at the base
\* node is 0.
C21_SurfaceBoundaryValue ==
    (pc = "returned" /\ model.kind = "SixBandModel" /\ model.snow_depth >= 0) =>
        \A b \in 0..5 :
            /\ Idx(full.downwelling[b + 1], -1) = SurfaceTransmittance(model, b)
            /\ Idx(full.upwelling[b + 1], 0) = 0
            /\ (model.snow_depth = 0 /\ model.SSL_depth = 0) =>
                  Idx(full.downwelling[b + 1], -1) = One


\* the columns of a returned result that a boundary value solve filled, as
\* 1-based column numbers, and the surface downwelling the solve was given
SolvedColumns ==
    IF model.kind = "SixBandModel" THEN 1..5
    ELSE 1..Len(interior(model))
SurfaceDownwelling(c) ==
    IF model.kind = "SixBandModel" THEN SurfaceTransmittance(model, c - 1) ELSE One
Returned == results[model.fast_solve]

\* C22: on the grid of strictly increasing coordinates the last point is the
\* ice base and the first the surface: in every solved column of a returned
\* result the upwelling vanishes at the last point, the downwelling has its
\* boundary value (1, or the snow and SSL transmittance) at the first point,
\* and the albedo is the upwelling at the first point.
C22_SurfaceFirstBaseLast ==
    (pc = "returned" /\ StrictlyAscending(model.z) /\ model.snow_depth >= 0) =>
        \A c \in SolvedColumns :
            /\ Idx(Returned.upwelling[c], -1) = 0
            /\ Idx(Returned.downwelling[c], 0) = SurfaceDownwelling(c)
            /\ spectral_albedo(Returned)[c] = Idx(Returned.upwelling[c], 0)


\* ------------------------------------------- assignments to a field

\* the models whose fields a caller assigns to after construction
FieldModels ==
    {SixBandModel(Grid(NGrid), ssl, snow, None) : ssl \in {0, 40}, snow \in SnowDepths}
    \cup
    {CtsWavelengthModel(Grid(NGrid), w, IceOverWater(NGrid, 0), f, c) :
        w \in WavelengthArrays(MaxWavelengths), f \in BOOLEAN, c \in Cutoffs}

FieldInit ==
    /\ model \in FieldModels
    /\ pc = "start"
    /\ i = 0
    /\ upwelling = <<>>
    /\ downwelling = <<>>
    /\ calls = <<>>
    /\ error = NoError
    /\ bvp = [k \in Keys |-> Unknown]
    /\ results = [f \in BOOLEAN |-> NoResult]
    /\ broadband = NoBroadband
    /\ integration = NoIntegration
    /\ layer = NoLayer
    /\ reply = NoReply

Assigned(target, out) == [op |-> target, L |-> 0, z |-> <<>>, out |-> out]

\* model.snow_depth = v, before or after the solve.  SixBandModel is a plain
\* dataclass (six_band.py 24), whose __setattr__ stores the value; the
\* continuous model is a frozen dataclass (infinite_layer.py 17), whose
\* __setattr__ raises FrozenInstanceError for every name.
SetModelField ==
    /\ pc \in {"start", "returned"}
    /\ reply = NoReply
    /\ \E v \in SnowDepths :
          IF model.kind = "SixBandModel"
          THEN /\ model' = [model EXCEPT !.snow_depth = v]
               /\ reply' = Assigned("model.snow_depth", Ok(v))
          ELSE /\ model' = model
               /\ reply' = Assigned("model.snow_depth", Raise("FrozenInstanceError"))
    /\ UNCHANGED <<pc, i, upwelling, downwelling, calls, error, bvp, results,
                   broadband, integration, layer>>

\* result.upwelling = a, on a result of the solve: the result classes are
\* frozen dataclasses (irradiance.py 25 and 63)
SetResultField ==
    /\ pc = "returned"
    /\ reply = NoReply
    /\ reply' = Assigned("result.upwelling", Raise("FrozenInstanceError"))
    /\ UNCHANGED <<model, pc, i, upwelling, downwelling, calls, error, bvp, results,
                   broadband, integration, layer>>

FieldNext ==
    \/ Begin
    \/ StepWavelength
    \/ ReturnCts
    \/ StepBand
    \/ ReturnSix
    \/ Integrate
    \/ SetModelField
    \/ SetResultField

FieldSpec == FieldInit /\ [][FieldNext]_vars

\* C23: no entity is mutated after construction: no step of the solve, of
\* integrate_over_SW or of an assignment to a field changes a field of the
\* model or of a result that has been returned.
C23_NoMutation ==
    [][/\ model' = model
       /\ \A f \in BOOLEAN : results[f] # NoResult => results'[f] = results[f]]_vars


\* the key under which the solve of column c is held in bvp
KeyOf(c) == IF model.kind = "SixBandModel" THEN c - 1 ELSE model.wavelengths[c]

\* a column that is 0 but for v at its last grid point
LastOnly(n, v) == [k \in 1..n |-> IF k = n THEN v ELSE 0]

\* C24: one grid orientation in every code path: the downwelling boundary
\* condition of a boundary value solve is met at the last grid point, where
\* the spectral and the broadband albedo are read, where the fast path writes
\* its 1 and where band 5 writes the snow transmittance; the upwelling
\* vanishes at the first grid point.
C24_OneOrientation ==
    pc = "returned" =>
        LET r == Returned
            n == Len(model.z)
        IN  /\ \A c \in SolvedColumns :
                  /\ bvp[KeyOf(c)].success
                  /\ \E column \in {Column(bvp[KeyOf(c)].profile, n,
                                           SurfaceDownwelling(c), TRUE)} :
                        /\ r.upwelling[c] = column.up
                        /\ r.downwelling[c] = column.down
                  /\ r.downwelling[c][n] = SurfaceDownwelling(c)
                  /\ r.upwelling[c][1] = 0
            /\ \A c \in 1..Len(r.upwelling) :
                  spectral_albedo(r)[c] = r.upwelling[c][n]
            /\ (IsCts(r) /\ model.fast_solve) =>
                  \A c \in (cut_off_index(model) + 1)..Len(r.wavelengths) :
                      /\ r.downwelling[c] = LastOnly(n, One)
                      /\ r.upwelling[c] = Zeros(n)
            /\ IsSix(r) =>
                  /\ r.downwelling[6] =
                         LastOnly(n, calculate_band_snow_transmittance(r.snow_depth, 5))
                  /\ r.upwelling[6] = Zeros(n)
            /\ (integration.called /\ integration.err = "none"
                    /\ integration.of = model.fast_solve /\ IsCts(r)) =>
                  broadband_albedo(broadband) = broadband.upwelling[n]

\* a six-band solve of ice under an SSL has returned: band 0 holds a solved
\* column with a positive albedo at the last grid point and none at the first,
\* and band 5 holds its 1 at the last grid point
C24_Witness ==
    /\ pc = "returned"
    /\ IsSix(full)
    /\ model.snow_depth = 0
    /\ model.SSL_depth > 0
    /\ full.upwelling[1][Len(model.z)] > 0
    /\ full.upwelling[1][1] = 0
    /\ full.downwelling[1][Len(model.z)] > full.downwelling[1][1]
    /\ full.downwelling[6][Len(model.z)] = One
    /\ full.downwelling[6][1] = 0


\* the 1-based numbers of the columns of array a that nothing has written
Unwritten(a) == {c \in 1..Len(a) : a[c] = <<>>}

\* a step writes exactly the columns cs of array a, none of them written before
Writes(a, b, cs) ==
    /\ Len(b) = Len(a)
    /\ cs \subseteq Unwritten(a)
    /\ \A c \in 1..Len(a) :
          IF c \in cs THEN Len(b[c]) = Len(model.z) ELSE b[c] = a[c]

IsBVPCall(c) == c[1] = BVP
Handed ==
    LET made == SelectSeq(calls, IsBVPCall)
    IN  [k \in 1..Len(made) |-> made[k][2]]

IsPrefix(s, t) == Len(s) <= Len(t) /\ s = SubSeq(t, 1, Len(s))
Largest(w) == CHOOSE x \in {w[k] : k \in 1..Len(w)} : \A k \in 1..Len(w) : w[k] <= x

\* what holds of a fast solve whatever the wavelengths: the solver is handed
\* the wavelengths at the indices 0..j in turn, j the first index nearest to
\* the cutoff, and no other; the columns after j are fast path columns
SolvedUpTo(j) ==
    LET w == model.wavelengths
        n == Len(model.z)
    IN  /\ IsPrefix(Handed, SubSeq(w, 1, j + 1))
        /\ pc = "returned" =>
              /\ Handed = SubSeq(w, 1, j + 1)
              /\ Len(Handed) >= 1
              /\ \A k \in 1..(j + 1) :
                    /\ fast.upwelling[k] = Column(bvp[w[k]].profile, n, One, TRUE).up
                    /\ ~IsFastPathColumn(fast, k)
              /\ \A k \in (j + 2)..Len(w) : IsFastPathColumn(fast, k)

\* C26 as stated: in fast-solve mode exactly the wavelengths at the indices
\* 0..j are handed to the boundary value solver, j the first index nearest to
\* the cutoff, the later ones get the fast path column; and with the cutoff at
\* or beyond the largest wavelength no column is a fast path column.
C26_SolvedUpToNearest ==
    (model.kind = "CtsWavelengthModel" /\ model.fast_solve
        /\ pc \in {"loop", "returned", "raised"}) =>
        /\ SolvedUpTo(Nearest(model.wavelengths, model.wavelength_cutoff))
        /\ (pc = "returned" /\ model.wavelength_cutoff >= Largest(model.wavelengths)) =>
              \A k \in 1..Len(model.wavelengths) : ~IsFastPathColumn(fast, k)

\* C26 amended: the same, the last part for wavelengths in strictly ascending
\* order: with the cutoff at or beyond the largest of them no column is a fast
\* path column.
C26_SolvedUpToNearestStrict ==
    (model.kind = "CtsWavelengthModel" /\ model.fast_solve
        /\ pc \in {"loop", "returned", "raised"}) =>
        /\ SolvedUpTo(Nearest(model.wavelengths, model.wavelength_cutoff))
        /\ (pc = "returned" /\ model.wavelength_cutoff >= Largest(model.wavelengths)
                /\ StrictlyAscending(model.wavelengths)) =>
              \A k \in 1..Len(model.wavelengths) : ~IsFastPathColumn(fast, k)

\* a fast solve of strictly ascending wavelengths with the cutoff at the
\* largest has returned: every wavelength was handed to the solver
C26_Witness ==
    /\ pc = "returned"
    /\ model.kind = "CtsWavelengthModel"
    /\ model.fast_solve
    /\ StrictlyAscending(model.wavelengths)
    /\ Len(model.wavelengths) >= 2
    /\ model.wavelength_cutoff >= Largest(model.wavelengths)
    /\ Handed = model.wavelengths
    /\ \A k \in 1..Len(model.wavelengths) : fast.upwelling[k][Len(model.z)] > 0


\* C27: bare ice in the six-band model: with snow_depth = 0 and SSL_depth = 0
\* the snow and SSL albedos are 0 and both transmittances 1 in every band, the
\* combined albedo of a band is the upwelling at the surface node, the surface
\* downwelling of a solved result is 1, and the broadband albedo that
\* integrate_over_SW returns is the integrated upwelling at the surface node.
C27_BareIceReduction ==
    (model.kind = "SixBandModel" /\ model.snow_depth = 0 /\ model.SSL_depth = 0) =>
        LET n == Len(model.z) IN
        /\ \A b \in 0..5 :
              /\ calculate_band_snow_albedo(model.snow_depth, b) = 0
              /\ calculate_band_SSL_albedo(model.SSL_depth, b) = Ok(0)
              /\ calculate_band_snow_transmittance(model.snow_depth, b) = One
              /\ calculate_band_SSL_transmittance(model.SSL_depth, b) = Ok(One)
        /\ IsSix(full) =>
              \A albedo \in {six_band_albedo(full)} :
                  /\ albedo.ok
                  /\ \A c \in 1..6 : albedo.val[c] = full.upwelling[c][n]
        /\ pc = "returned" => \A c \in 1..6 : full.downwelling[c][n] = One
        /\ (integration.called /\ IsSix(full)) =>
              /\ integration.err = "none"
              /\ broadband.kind = "SixBandIrradiance"
              /\ broadband.albedo = broadband.upwelling[n]
              /\ broadband_albedo(broadband) = broadband.upwelling[n]

\* a solve of bare ice has returned and been integrated to a positive
\* broadband albedo
C27_Witness ==
    /\ pc = "returned"
    /\ model.kind = "SixBandModel"
    /\ model.snow_depth = 0
    /\ model.SSL_depth = 0
    /\ integration.called
    /\ full.upwelling[1][Len(model.z)] > 0
    /\ broadband.albedo > 0
    /\ broadband.albedo = broadband.upwelling[Len(model.z)]


\* C28: the heating of the two-layer model uses, at every depth, the
\* absorption coefficient of the sub-layer whose irradiance formulas it uses
\* there: at or above the interface the oil-bearing absorption k1 with the top
\* sub-layer's upwelling and downwelling, below it the oil-free absorption k2
\* with the bottom sub-layer's formulas at the depth less the interface.
C28_HeatingSubLayers ==
    (layer.kind = "TwoLayerModel" /\ reply.op = "heating" /\ reply.out.ok) =>
        \A b \in {0 - (layer.thickness_ratio * layer.ice_thickness) \div One} :
            /\ Len(reply.out.val) = Len(reply.z)
            /\ \A j \in 1..Len(reply.z) :
                  /\ reply.z[j] >= b =>
                        reply.out.val[j] =
                            FMul(TwoLayer_k1(layer, reply.L),
                                 FAdd(upwelling_1(layer, reply.z[j], reply.L),
                                      downwelling_1(layer, reply.z[j], reply.L)))
                  /\ reply.z[j] < b =>
                        reply.out.val[j] =
                            FMul(TwoLayer_k2(layer, reply.L),
                                 FAdd(upwelling_2(layer, reply.z[j] - b, reply.L),
                                      downwelling_2(layer, reply.z[j] - b, reply.L)))

\* the heating of a valid two-layer model with oil, at a depth on the
\* interface and at one below it: the two absorptions differ, and swapping them
\* would change both values
C28_Witness ==
    /\ layer = TwoLayerModel(1000, 5000, 1000, "FYI")
    /\ reply.op = "heating"
    /\ reply.L = 625
    /\ reply.z = <<0 - 1000, 0 - 500>>
    /\ reply.out.ok
    /\ TwoLayer_k1(layer, 625).val > TwoLayer_k2(layer, 625).val
    /\ reply.out.val[1].val > 0
    /\ reply.out.val[2].val > reply.out.val[1].val
    /\ reply.out.val[2] #
           FMul(TwoLayer_k2(layer, 625),
                FAdd(upwelling_1(layer, 0 - 500, 625), downwelling_1(layer, 0 - 500, 625)))
    /\ reply.out.val[1] #
           FMul(TwoLayer_k1(layer, 625),
                FAdd(upwelling_2(layer, 0 - 500, 625), downwelling_2(layer, 0 - 500, 625)))


\* the result r with its bands 0, 4 and 5 replaced by the column v
OutsidePARReplaced(r, v) ==
    [r EXCEPT !.upwelling = [c \in 1..6 |-> IF c \in {1, 5, 6} THEN v ELSE @[c]],
              !.downwelling = [c \in 1..6 |-> IF c \in {1, 5, 6} THEN v ELSE @[c]]]

\* C29: the PAR transmittance of a six-band result is, at every depth, the sum
\* over the bands 1, 2 and 3 of the cloudy-sky fraction (0.217, 0.196, 0.155)
\* times downwelling less upwelling, divided by the sum of the three fractions;
\* the bands 0, 4 and 5 have no part in it; and the ice-base PAR transmittance
\* is that profile at the ice-base index.
C29_PARTransmittance ==
    IsSix(full) =>
        \A PAR \in {PAR_transmittance(full)} :
            /\ Len(PAR) = Len(full.z)
            /\ \A d \in 1..Len(full.z) :
                  PAR[d] =
                      (217 * (full.downwelling[2][d] - full.upwelling[2][d])
                       + 196 * (full.downwelling[3][d] - full.upwelling[3][d])
                       + 155 * (full.downwelling[4][d] - full.upwelling[4][d]))
                          \div (217 + 196 + 155)
            /\ \A v \in {Zeros(Len(full.z)), [d \in 1..Len(full.z) |-> One]} :
                  PAR_transmittance(OutsidePARReplaced(full, v)) = PAR
            /\ ice_base_PAR_transmittance(full) = PAR[full.ice_base_index + 1]

\* a solve of ice over water has returned: the bands differ, the ice base is
\* not the first grid point, and the PAR transmittance there is a proper
\* fraction, not the one at the first grid point
C29_Witness ==
    /\ pc = "returned"
    /\ IsSix(full)
    /\ full.ice_base_index > 0
    /\ full.downwelling[1] # full.downwelling[2]
    /\ full.downwelling[4] # full.downwelling[5]
    /\ ice_base_PAR_transmittance(full) > 0
    /\ ice_base_PAR_transmittance(full) < One
    /\ ice_base_PAR_transmittance(full) # PAR_transmittance(full)[1]


\* every wavelength of w lies in the closed range of the spectrum
InRange(spectrum, w) ==
    \A k \in 1..Len(w) :
        spectrum.min_wavelength <= w[k] /\ w[k] <= spectrum.max_wavelength

\* C30: a BlackBodySpectrum called with wavelengths of which any lies outside
\* its closed range raises a ValueError and returns no weights, wavelengths on
\* either bound are accepted; and integrate_over_SW on a continuous-wavelength
\* result raises that ValueError and returns no broadband result whenever a
\* wavelength of the result lies outside the range of the spectrum.
C30_SpectrumRange ==
    /\ model.kind = "CtsWavelengthModel" =>
          \A s \in Spectra :
              \A weights \in {spectrum_call(s, model.wavelengths)} :
                  /\ weights.ok <=> InRange(s, model.wavelengths)
                  /\ weights.ok => Len(weights.val) = Len(model.wavelengths)
                  /\ ~weights.ok => weights = Raise("ValueError")
    /\ (integration.called /\ IsCts(results[integration.of])
            /\ integration.spectrum # NoSpectrum) =>
          IF InRange(integration.spectrum, results[integration.of].wavelengths)
          THEN /\ integration.err = "none"
               /\ broadband.kind = "Irradiance"
          ELSE /\ integration.err = "ValueError"
               /\ integration.calls = <<"spectrum">>
               /\ broadband = NoBroadband

\* integrate_over_SW of a solved result with one wavelength on the lower bound
\* of the spectrum and one above its upper bound has raised
C30_Witness ==
    /\ integration.called
    /\ IsCts(results[integration.of])
    /\ integration.spectrum = BlackBodySpectrum(1100, 1200)
    /\ results[integration.of].wavelengths = <<1100, 1300>>
    /\ integration.err = "ValueError"
    /\ broadband = NoBroadband
    /\ spectrum_call(integration.spectrum, <<1100, 1200>>).ok

=============================================================================
